---- MODULE Spec2Model ----
(***************************************************************************)
(* Reddish-Trends-Engine: the cross-source selector of data_processing.py  *)
(* (get_top_stock, get_worst_stock, get_rising_stock) and the cached       *)
(* general analysis of main.py (cached_analysis, CACHE_FILE, the /api/home *)
(* handler, the scheduler job and the startup sequence).                   *)
(*                                                                         *)
(* Sentiments are the two-decimal floats of sentiment_analysis.py scaled   *)
(* by 100 (8.72 is 872).  The wall clock is counted in ticks of 1/SubSec   *)
(* second, so that strftime("%Y-%m-%d %H:%M:%S") loses the sub-second part *)
(* of datetime.now().                                                      *)
(***************************************************************************)
EXTENDS Integers, Sequences, FiniteSets, TLC

VARIABLES
    analysis,         \* the list[dict] handed to the selector (one result per subreddit)
    ret,              \* the last selector call: function, limit argument, returned value
    cached_analysis,  \* main.py global cached_analysis
    cache_file,       \* content of CACHE_FILE on disk
    now,              \* datetime.now(), in ticks
    phase,            \* position in the module start-up sequence of main.py
    call,             \* the last handler or job that ran, and what it did
    run_date,         \* run_date of the scheduler's date job, in ticks
    startup_runs,     \* perform_general_analysis runs begun by the start-up sequence
    futures,          \* run_general_analysis: one future per subreddit
    finish_order,     \* the order in which the pool's tasks finished
    results,          \* run_general_analysis: the results collected so far
    run_ret,          \* what run_general_analysis returned or raised
    workers,          \* the request and scheduler threads of main.py
    computations,     \* number of perform_general_analysis runs begun
    write_failed,     \* some write of CACHE_FILE failed
    sentiment_data,   \* get_reddit_analysis: the mention mapping, in discovery order
    classified,       \* the last get_reddit_analysis call: limit and returned lists
    posts,            \* extract_stock_mentions: the list of text units
    stock_mentions    \* what extract_stock_mentions returned

selVars == <<analysis, ret>>
startVars == <<run_date, startup_runs>>
cacheVars == <<cached_analysis, cache_file, now, phase, call, startVars>>
poolVars == <<futures, finish_order, results, run_ret>>
concVars == <<workers, computations, write_failed>>
clsVars == <<sentiment_data, classified>>
extVars == <<posts, stock_mentions>>

vars == <<selVars, cacheVars, poolVars, concVars, clsVars, extVars>>

-----------------------------------------------------------------------------
(* Python values.  A value that may be None or an exception is tagged. *)

NoneVal == [tag |-> "None"]                             \* Python None
IndexError == [tag |-> "raise", exc |-> "IndexError"]   \* list index out of range
Some(v) == [tag |-> "value", value |-> v]               \* any other value

\* s[:n] for n >= 0
SliceTo(s, n) == SubSeq(s, 1, IF n < Len(s) THEN n ELSE Len(s))

\* s[i:] for any integer i (a negative i counts from the end)
SliceFrom(s, i) ==
    LET start == IF i < 0 THEN (IF Len(s) + i < 0 THEN 0 ELSE Len(s) + i)
                 ELSE (IF i > Len(s) THEN Len(s) ELSE i)
    IN SubSeq(s, start + 1, Len(s))

-----------------------------------------------------------------------------
(* Bounds and input domains of the selector *)

subreddits == <<"wallstreetbets", "stocks", "stockmarket">>
Symbols == {"$SPY", "$GPRO"}
SentimentValues == {-448, 872}
MaxCount == 2             \* mention counts are 1..MaxCount
MaxTotalMentions == 4     \* mentions over all subreddits of one analysis
MaxLimit == 3             \* limit arguments are 1..MaxLimit

AnalysisLimit == 100        \* run_general_analysis(subreddits, 100)
RisingThreshold == 50       \* sentiment > 0.5
RisingSlice == 3            \* sorted(...)[:3]
DefaultRisingLimit == 1     \* get_rising_stock(analysis, limit: int = 1)

\* One entry of a category list after merge_stock_data
Stock == [symbol : Symbols, count : 1..MaxCount, sentiment : SentimentValues]

\* The mentions of one subreddit as get_reddit_analysis holds them after its
\* sort: distinct symbols (dictionary keys), sentiment descending.
SortedMentions ==
    {s \in UNION {[1..n -> Stock] : n \in 0..Cardinality(Symbols)} :
        /\ \A i, j \in 1..Len(s) : i < j => s[i].symbol # s[j].symbol
        /\ \A i \in 1..(Len(s) - 1) : s[i].sentiment >= s[i + 1].sentiment}

\* the threshold itself counted as rising
get_reddit_analysis_from_threshold(sorted_stocks, limit) ==
    [top_stocks    |-> SliceTo(sorted_stocks, limit \div 2),
     worst_stocks  |-> SliceFrom(sorted_stocks, (0 - limit) \div 2),
     rising_stocks |-> SelectSeq(sorted_stocks,
                           LAMBDA s : s.sentiment >= RisingThreshold)]

\* get_reddit_analysis: the three slices of the sorted list
get_reddit_analysis(sorted_stocks, limit) ==
    [top_stocks    |-> SliceTo(sorted_stocks, limit \div 2),
     worst_stocks  |-> SliceFrom(sorted_stocks, (0 - limit) \div 2),
     rising_stocks |-> SelectSeq(sorted_stocks,
                           LAMBDA s : s.sentiment > RisingThreshold)]

\* general_stock_and_social_analysis: {subreddit: financial_data}
general_stock_and_social_analysis(subreddit, sorted_stocks, limit) ==
    [subreddit |-> subreddit] @@ get_reddit_analysis(sorted_stocks, limit)

-----------------------------------------------------------------------------
(* data_processing.py *)

\* the emptiness check left out
SkipSource_never(stocks) == FALSE

\* `if not result[subreddit][...]: continue`
SkipSource(stocks) == stocks = <<>>

\* Step 1 for one source: the entries tied with the entry at position idx
\* (idx = 1 is stocks[0], idx = Len(stocks) is stocks[-1])
ExtremumEntries(stocks, idx) ==
    IF stocks = <<>> THEN IndexError
    ELSE LET extremum == stocks[idx].sentiment
         IN Some(SelectSeq(stocks, LAMBDA stock : stock.sentiment = extremum))

\* list.extend over the sources, left to right
Extend(own, rest) ==
    IF own.tag = "raise" THEN own
    ELSE IF rest.tag = "raise" THEN rest
    ELSE Some(own.value \o rest.value)

RECURSIVE top_sentiment_stocks(_)
top_sentiment_stocks(a) ==
    IF a = <<>> THEN Some(<<>>)
    ELSE LET stocks == Head(a).top_stocks
         IN IF SkipSource(stocks) THEN top_sentiment_stocks(Tail(a))
            ELSE Extend(ExtremumEntries(stocks, 1), top_sentiment_stocks(Tail(a)))

\* the lowest sentiment read at the head of the list instead of its tail
RECURSIVE worst_sentiment_stocks_head(_)
worst_sentiment_stocks_head(a) ==
    IF a = <<>> THEN Some(<<>>)
    ELSE LET stocks == Head(a).worst_stocks
         IN IF SkipSource(stocks) THEN worst_sentiment_stocks_head(Tail(a))
            ELSE Extend(ExtremumEntries(stocks, 1),
                        worst_sentiment_stocks_head(Tail(a)))

RECURSIVE worst_sentiment_stocks(_)
worst_sentiment_stocks(a) ==
    IF a = <<>> THEN Some(<<>>)
    ELSE LET stocks == Head(a).worst_stocks
         IN IF SkipSource(stocks) THEN worst_sentiment_stocks(Tail(a))
            ELSE Extend(ExtremumEntries(stocks, Len(stocks)),
                        worst_sentiment_stocks(Tail(a)))

RECURSIVE rising_sentiment_stocks(_)
rising_sentiment_stocks(a) ==
    IF a = <<>> THEN Some(<<>>)
    ELSE LET stocks == Head(a).rising_stocks
         IN IF SkipSource(stocks) THEN rising_sentiment_stocks(Tail(a))
            ELSE Extend(ExtremumEntries(stocks, 1), rising_sentiment_stocks(Tail(a)))

\* stock_counts[symbol]: number of pool entries with that symbol
stock_counts(pool, symbol) ==
    Cardinality({i \in 1..Len(pool) : pool[i].symbol = symbol})

\* max(stock_counts.values()) if stock_counts else 0
max_appearances(pool) ==
    IF pool = <<>> THEN 0
    ELSE CHOOSE m \in 1..Len(pool) :
            /\ \E i \in 1..Len(pool) : stock_counts(pool, pool[i].symbol) = m
            /\ \A i \in 1..Len(pool) : stock_counts(pool, pool[i].symbol) <= m

\* Step 2 left out: every pool entry goes on to Step 3
most_frequent_stocks_all(pool) == pool

\* Step 2: the pool entries whose symbol has the maximal number of entries
most_frequent_stocks(pool) ==
    LET m == max_appearances(pool)
    IN SelectSeq(pool, LAMBDA stock : stock_counts(pool, stock.symbol) = m)

\* the first survivor taken, whatever its count
MaxByCount_first(s) == s[1]

\* the last of the entries of maximal count
RECURSIVE MaxByCount_last(_)
MaxByCount_last(s) ==
    IF Len(s) = 1 THEN s[1]
    ELSE LET m == MaxByCount_last(Tail(s))
         IN IF s[1].count > m.count THEN s[1] ELSE m

\* max(most_frequent_stocks, key=lambda c: c["count"]): the first maximal entry
RECURSIVE MaxByCount(_)
MaxByCount(s) ==
    IF Len(s) = 1 THEN s[1]
    ELSE LET m == MaxByCount(Tail(s))
         IN IF s[1].count >= m.count THEN s[1] ELSE m

\* sorted(most_frequent_stocks, key=lambda c: c["count"], reverse=True): stable
RECURSIVE InsertByCount(_, _)
InsertByCount(x, s) ==
    IF s = <<>> THEN <<x>>
    ELSE IF s[1].count > x.count THEN <<s[1]>> \o InsertByCount(x, Tail(s))
    ELSE <<x>> \o s

RECURSIVE SortedByCountDesc(_)
SortedByCountDesc(s) ==
    IF s = <<>> THEN <<>>
    ELSE InsertByCount(Head(s), SortedByCountDesc(Tail(s)))

\* Step 3 of get_top_stock and get_worst_stock
SelectOne(pool) ==
    IF pool.tag = "raise" THEN pool
    ELSE IF pool.value = <<>> THEN NoneVal
    ELSE LET frequent == most_frequent_stocks(pool.value)
         IN IF frequent = <<>> THEN NoneVal ELSE Some(MaxByCount(frequent))

get_top_stock(a) == SelectOne(top_sentiment_stocks(a))

get_worst_stock(a) == SelectOne(worst_sentiment_stocks(a))

\* Step 3 of get_rising_stock; the limit parameter is not read by the body
RisingSelection(pool, limit) ==
    IF pool.tag = "raise" THEN pool
    ELSE IF pool.value = <<>> THEN NoneVal
    ELSE LET frequent == most_frequent_stocks(pool.value)
         IN IF frequent = <<>> THEN NoneVal
            ELSE Some(SliceTo(SortedByCountDesc(frequent), RisingSlice))

get_rising_stock(a, limit) == RisingSelection(rising_sentiment_stocks(a), limit)

-----------------------------------------------------------------------------
(* Specification of the selector: an analysis list, then one selector call *)

RECURSIVE AnalysisOf(_, _)
\* run_general_analysis: one result per subreddit, in the order of the argument
AnalysisOf(subs, mentions) ==
    IF subs = <<>> THEN <<>>
    ELSE <<general_stock_and_social_analysis(Head(subs), Head(mentions), AnalysisLimit)>>
         \o AnalysisOf(Tail(subs), Tail(mentions))

NoCall == [fn |-> "none", limit |-> 0, value |-> NoneVal]

IdleCache ==
    /\ cached_analysis = NoneVal
    /\ cache_file = [tag |-> "absent"]
    /\ now = 0
    /\ phase = "boot"
    /\ call = [op |-> "none", pre |-> "EMPTY", runs |-> 0, outcome |-> "none",
               result |-> NoneVal]
    /\ run_date = 0
    /\ startup_runs = 0

\* run_general_analysis has not been called
IdlePool ==
    /\ futures = <<>>
    /\ finish_order = <<>>
    /\ results = <<>>
    /\ run_ret = NoneVal

\* no request or job thread exists
IdleThreads ==
    /\ workers = <<>>
    /\ computations = 0
    /\ write_failed = FALSE

\* get_reddit_analysis has not been called
IdleClassifier ==
    /\ sentiment_data = <<>>
    /\ classified = NoneVal

\* extract_stock_mentions has not been called
IdleExtractor ==
    /\ posts = <<>>
    /\ stock_mentions = NoneVal

RECURSIVE TotalLen(_)
TotalLen(lists) == IF lists = <<>> THEN 0 ELSE Len(Head(lists)) + TotalLen(Tail(lists))

SelInit ==
    /\ \E n \in 0..Len(subreddits) :
          \E mentions \in [1..n -> SortedMentions] :
             /\ TotalLen(mentions) <= MaxTotalMentions
             /\ analysis = AnalysisOf(SubSeq(subreddits, 1, n), mentions)
    /\ ret = NoCall
    /\ IdleCache
    /\ IdlePool
    /\ IdleThreads
    /\ IdleClassifier
    /\ IdleExtractor

CallTop ==
    /\ ret = NoCall
    /\ ret' = [fn |-> "get_top_stock", limit |-> 0, value |-> get_top_stock(analysis)]
    /\ UNCHANGED <<analysis, cacheVars, poolVars, concVars, clsVars, extVars>>

CallWorst ==
    /\ ret = NoCall
    /\ ret' = [fn |-> "get_worst_stock", limit |-> 0, value |-> get_worst_stock(analysis)]
    /\ UNCHANGED <<analysis, cacheVars, poolVars, concVars, clsVars, extVars>>

CallRising ==
    /\ ret = NoCall
    /\ \E limit \in 1..MaxLimit :
          ret' = [fn |-> "get_rising_stock", limit |-> limit,
                  value |-> get_rising_stock(analysis, limit)]
    /\ UNCHANGED <<analysis, cacheVars, poolVars, concVars, clsVars, extVars>>

SelNext == CallTop \/ CallWorst \/ CallRising

SelSpec == SelInit /\ [][SelNext]_vars

-----------------------------------------------------------------------------
(* The three steps of the selection, stated on positions of the analysis    *)
(* list: <<i, j>> is entry j of the category list of source i.              *)

EntryAt(cat, p) == analysis[p[1]][cat][p[2]]

\* Step 1: the entries tied with the head (top, rising) or the tail (worst)
\* of their own source's list
Step1Positions(cat, atHead) ==
    {p \in (1..Len(analysis)) \X (1..Cardinality(Symbols)) :
        LET l == analysis[p[1]][cat]
        IN /\ p[2] <= Len(l)
           /\ l[p[2]].sentiment = l[IF atHead THEN 1 ELSE Len(l)].sentiment}

\* number of Step 1 entries of a symbol
Appearances(cat, atHead, symbol) ==
    Cardinality({p \in Step1Positions(cat, atHead) : EntryAt(cat, p).symbol = symbol})

\* Step 2: the Step 1 entries whose symbol has the maximal number of entries
Step2Positions(cat, atHead) ==
    {p \in Step1Positions(cat, atHead) :
        \A q \in Step1Positions(cat, atHead) :
            Appearances(cat, atHead, EntryAt(cat, q).symbol)
                <= Appearances(cat, atHead, EntryAt(cat, p).symbol)}

\* the value v is a Step 2 survivor of maximal count
IsSelection(cat, atHead, v) ==
    /\ \E p \in Step2Positions(cat, atHead) : EntryAt(cat, p) = v
    /\ \A q \in Step2Positions(cat, atHead) : EntryAt(cat, q).count <= v.count
    /\ \A symbol \in Symbols :
          Appearances(cat, atHead, symbol) < Appearances(cat, atHead, v.symbol)
             => v.symbol # symbol

\* C1: a stock returned by get_top_stock is an entry of some source's
\* top_stocks tied with that source's head sentiment (Step 1), its symbol has
\* the maximal number of entries in that pool (Step 2) and its count is
\* maximal among the Step 2 survivors (Step 3); a symbol with fewer pool
\* entries is never selected, whatever its sentiment.
C1_TopIsThreeStepSelection ==
    (ret.fn = "get_top_stock" /\ ret.value.tag = "value")
        => IsSelection("top_stocks", TRUE, ret.value.value)

\* SPY is the head of two sources, GPRO the head of one source with a higher
\* sentiment, and get_top_stock returned SPY
C1_Witness ==
    /\ ret.fn = "get_top_stock"
    /\ ret.value.tag = "value"
    /\ \E s, t \in Symbols :
          /\ Appearances("top_stocks", TRUE, s) = 2
          /\ Appearances("top_stocks", TRUE, t) = 1
          /\ \E q \in Step1Positions("top_stocks", TRUE) :
                /\ EntryAt("top_stocks", q).symbol = t
                /\ \A p \in Step1Positions("top_stocks", TRUE) :
                      EntryAt("top_stocks", p).symbol = s =>
                         /\ EntryAt("top_stocks", q).sentiment > EntryAt("top_stocks", p).sentiment
                         /\ EntryAt("top_stocks", q).count > EntryAt("top_stocks", p).count
          /\ ret.value.value.symbol = s

\* C2: a stock returned by get_worst_stock is an entry of some source's
\* worst_stocks whose sentiment equals that of the last entry of that list,
\* its symbol has the maximal number of entries in the pool of such entries
\* and its count is maximal among those survivors; a source with an empty
\* worst_stocks list contributes nothing.
C2_WorstIsThreeStepSelection ==
    (ret.fn = "get_worst_stock" /\ ret.value.tag = "value")
        => IsSelection("worst_stocks", FALSE, ret.value.value)

\* a source lists two stocks of different sentiment, another source has no
\* worst stock, and get_worst_stock returned a stock
C2_Witness ==
    /\ ret.fn = "get_worst_stock"
    /\ ret.value.tag = "value"
    /\ \E i, k \in 1..Len(analysis) :
          /\ analysis[i].worst_stocks = <<>>
          /\ Len(analysis[k].worst_stocks) = 2
          /\ analysis[k].worst_stocks[1].sentiment > analysis[k].worst_stocks[2].sentiment
          /\ analysis[k].worst_stocks[1].count > analysis[k].worst_stocks[2].count

\* C3: the list returned by get_rising_stock(analysis, limit=N) has at most
\* N entries.
C3_RisingAtMostLimit ==
    (ret.fn = "get_rising_stock" /\ ret.value.tag = "value")
        => Len(ret.value.value) <= ret.limit

\* C4: get_rising_stock returns the Step 1-2 survivors of the rising_stocks
\* lists ordered by count descending and cut to the first N.
C4_RisingIsSortedSurvivorsCutToLimit ==
    (ret.fn = "get_rising_stock" /\ ret.value.tag = "value")
        => ret.value.value =
              SliceTo(SortedByCountDesc(
                  most_frequent_stocks(rising_sentiment_stocks(analysis).value)),
                  ret.limit)

\* the category list read by a selector function
CategoryOf(fn) ==
    CASE fn = "get_top_stock" -> "top_stocks"
      [] fn = "get_worst_stock" -> "worst_stocks"
      [] fn = "get_rising_stock" -> "rising_stocks"

\* the sources whose list of the category is not empty, in order
NonEmptySources(cat) == SelectSeq(analysis, LAMBDA r : r[cat] # <<>>)

SelectorResult(fn, a, limit) ==
    CASE fn = "get_top_stock" -> get_top_stock(a)
      [] fn = "get_worst_stock" -> get_worst_stock(a)
      [] fn = "get_rising_stock" -> get_rising_stock(a, limit)

\* C5: no selector call raises; when the analysis list is empty or every
\* source's list of the category is empty the result is None; a source with
\* an empty list of the category changes nothing in the result of the others.
C5_EmptyInputGivesNone ==
    ret.fn # "none" =>
        /\ ret.value.tag # "raise"
        /\ NonEmptySources(CategoryOf(ret.fn)) = <<>> => ret.value = NoneVal
        /\ ret.value = SelectorResult(ret.fn, NonEmptySources(CategoryOf(ret.fn)), ret.limit)
        /\ ret.value.tag = "value" =>
              \E i \in 1..Len(analysis) : analysis[i][CategoryOf(ret.fn)] # <<>>

\* three sources with mentions, none of them with a rising stock, and
\* get_rising_stock returned None
C5_Witness ==
    /\ ret.fn = "get_rising_stock"
    /\ Len(analysis) = 3
    /\ \A i \in 1..3 : analysis[i].top_stocks # <<>> /\ analysis[i].rising_stocks = <<>>
    /\ ret.value = NoneVal

-----------------------------------------------------------------------------
(* main.py: the cached general analysis *)

SubSec == 2                     \* clock ticks per second
TTL_SECONDS == 24 * 60 * 60     \* diff.total_seconds() > 24 * 60 * 60
HalfDay == TTL_SECONDS \div 2    \* the clock is observed every 12 hours ...
MaxHalfDays == 3                \* ... up to this many times, and at sub-second ticks
MisfireGraceSeconds == 1        \* APScheduler's default misfire_grace_time

\* datetime.now().strftime("%Y-%m-%d %H:%M:%S"): the whole seconds of t
strftime(t) == t \div SubSec

\* datetime.strptime(s, "%Y-%m-%d %H:%M:%S"): the tick at which second s starts
strptime(s) == s * SubSec

Absent == [tag |-> "absent"]        \* CACHE_FILE does not exist
Corrupt == [tag |-> "corrupt"]      \* CACHE_FILE holds a truncated dump
StrNone == [tag |-> "str", value |-> "None"]    \* the string "None"

\* what the fetch, scorer and quote collaborators deliver for the three
\* subreddits in one run (sorted mentions per subreddit), or an exception
CollectedMentions ==
    {<< <<>>, <<>>, <<>> >>,
     << <<[symbol |-> "$GPRO", count |-> 2, sentiment |-> 872],
          [symbol |-> "$SPY", count |-> 1, sentiment |-> -448]>>,
        <<[symbol |-> "$SPY", count |-> 1, sentiment |-> -448]>>,
        <<>> >>,
     << <<[symbol |-> "$SPY", count |-> 2, sentiment |-> 872]>>,
        <<[symbol |-> "$SPY", count |-> 1, sentiment |-> 872],
          [symbol |-> "$GPRO", count |-> 2, sentiment |-> 872]>>,
        <<>> >>}

CollectionOutcomes == {Some(m) : m \in CollectedMentions} \cup {[tag |-> "raise"]}

\* run_general_analysis(subreddits, 100)
run_general_analysis(collected) ==
    IF collected.tag = "raise" THEN collected
    ELSE Some(AnalysisOf(subreddits, collected.value))

\* rising_stocks[1] if there are two, else rising_stocks[0], else None
rising_stock_of(rising_stocks) ==
    IF rising_stocks.tag # "value" THEN NoneVal
    ELSE IF Len(rising_stocks.value) > 1 THEN Some(rising_stocks.value[2])
    ELSE IF Len(rising_stocks.value) > 0 THEN Some(rising_stocks.value[1])
    ELSE NoneVal

\* one category of response_data["response"]
ResponseEntry(stock) ==
    IF stock.tag = "None" THEN StrNone
    ELSE Some([symbol |-> stock.value.symbol,
               count |-> stock.value.count,
               sentiment |-> stock.value.sentiment,
               GPT_Analysis |-> "analysis"])

\* the global assigned only after a successful write
save_cached_analysis_after_write(store, analysis_data, io) ==
    [mem  |-> IF io = "ok" THEN analysis_data ELSE store.mem,
     file |-> CASE io = "ok" -> analysis_data
                [] io = "open_failed" -> store.file
                [] io = "dump_failed" -> Corrupt]

\* the stored dict updated key by key: the records now, the timestamp left
assign_cached_analysis_in_place(mem, analysis_data) ==
    IF mem.tag = "dict" THEN [mem EXCEPT !.response = analysis_data.response]
    ELSE analysis_data

\* `cached_analysis = analysis_data`: the global refers to the new dict
assign_cached_analysis(mem, analysis_data) == analysis_data

\* open(CACHE_FILE, "w") and json.dump; io is the outcome of the write
write_cache_file(file, analysis_data, io) ==
    CASE io = "ok" -> analysis_data
      [] io = "open_failed" -> file
      [] io = "dump_failed" -> Corrupt

\* save_cached_analysis: the global is assigned, then the file is written;
\* io is the outcome of the write ("ok", "open_failed", "dump_failed")
save_cached_analysis(store, analysis_data, io) ==
    [mem  |-> assign_cached_analysis(store.mem, analysis_data),
     file |-> write_cache_file(store.file, analysis_data, io)]

IOOutcomes == {"ok", "open_failed", "dump_failed"}

\* lines 107-120 of perform_general_analysis for each outcome of the
\* collection: the analysis and the three selections made from it
Selections ==
    [collected \in CollectionOutcomes |->
        LET general_analysis == run_general_analysis(collected)
        IN IF general_analysis.tag = "raise"
           THEN [tag |-> "raise"]
           ELSE LET rising_stocks ==
                        get_rising_stock(general_analysis.value, DefaultRisingLimit)
                IN [tag |-> "value",
                    top_stock |-> get_top_stock(general_analysis.value),
                    worst_stock |-> get_worst_stock(general_analysis.value),
                    rising_stocks |-> rising_stocks,
                    rising_stock |-> rising_stock_of(rising_stocks)]]

\* the selection saved before the narrative collaborator is called
perform_general_analysis_saves_early(store, collected, gpt, io, t) ==
    LET sel == Selections[collected]
        failed == [store |-> store, result |-> NoneVal, raised |-> TRUE]
    IN IF sel.tag = "raise" THEN failed
       ELSE IF "raise" \in {sel.top_stock.tag, sel.worst_stock.tag, sel.rising_stocks.tag}
       THEN failed
       ELSE LET response_data ==
                  [tag |-> "dict",
                   response |-> [Top_Stock |-> ResponseEntry(sel.top_stock),
                                 Worst_Stock |-> ResponseEntry(sel.worst_stock),
                                 Rising_Stock |-> ResponseEntry(sel.rising_stock)],
                   last_updated |-> strftime(t)]
                saved == save_cached_analysis(store, response_data, io)
            IN IF gpt = "raise"
                  /\ "value" \in {sel.top_stock.tag, sel.worst_stock.tag, sel.rising_stock.tag}
               THEN [store |-> saved, result |-> NoneVal, raised |-> TRUE]
               ELSE [store |-> saved, result |-> response_data, raised |-> FALSE]

\* perform_general_analysis run at tick t on the cache store (mem, file):
\* the store it leaves, the value it returns, and whether it raised
perform_general_analysis(store, collected, gpt, io, t) ==
    LET sel == Selections[collected]
        failed == [store |-> store, result |-> NoneVal, raised |-> TRUE]
    IN IF sel.tag = "raise" THEN failed
       ELSE IF "raise" \in {sel.top_stock.tag, sel.worst_stock.tag, sel.rising_stocks.tag}
       THEN failed
       ELSE IF gpt = "raise"
               /\ "value" \in {sel.top_stock.tag, sel.worst_stock.tag, sel.rising_stock.tag}
       THEN failed
       ELSE LET response_data ==
                  [tag |-> "dict",
                   response |-> [Top_Stock |-> ResponseEntry(sel.top_stock),
                                 Worst_Stock |-> ResponseEntry(sel.worst_stock),
                                 Rising_Stock |-> ResponseEntry(sel.rising_stock)],
                   last_updated |-> strftime(t)]
            IN [store |-> save_cached_analysis(store, response_data, io),
                result |-> response_data,
                raised |-> FALSE]

\* the cache never trusted
is_cache_outdated_always(cached, t) == TRUE

\* outdated from 24 hours on
is_cache_outdated_from_ttl(cached, t) ==
    IF cached.tag # "dict" THEN TRUE
    ELSE t - strptime(cached.last_updated) >= TTL_SECONDS * SubSec

\* is_cache_outdated at tick t
is_cache_outdated(cached, t) ==
    IF cached.tag # "dict" THEN TRUE
    ELSE t - strptime(cached.last_updated) > TTL_SECONDS * SubSec

\* load_cached_analysis; io is the outcome of open + json.load
load_cached_analysis(mem, file, io) ==
    IF file = Absent THEN mem
    ELSE IF io = "ok" /\ file # Corrupt THEN file
    ELSE NoneVal

-----------------------------------------------------------------------------
(* Handlers, jobs and the start-up sequence.  Each runs to completion. *)

Store == [mem |-> cached_analysis, file |-> cache_file]

\* the cache as the handler finds it
CacheState ==
    IF cached_analysis.tag # "dict" THEN "EMPTY"
    ELSE IF is_cache_outdated(cached_analysis, now) THEN "STALE"
    ELSE "VALID"

NoHandler == [op |-> "none", pre |-> "EMPTY", runs |-> 0, outcome |-> "none",
              result |-> NoneVal]

Serving == phase \in {"started", "serving"}

\* module level: load_cached_analysis()
LoadCachedAnalysis ==
    /\ phase = "boot"
    /\ \E io \in {"ok", "fail"} :
          cached_analysis' = load_cached_analysis(cached_analysis, cache_file, io)
    /\ phase' = "loaded"
    /\ UNCHANGED <<cache_file, now, call, startVars, selVars, poolVars, concVars, clsVars,
                   extVars>>

\* module level: startup_cache_update(), before scheduler.start(); an
\* exception here ends the import of main.py
StartupCacheUpdate ==
    /\ phase = "loaded"
    /\ IF is_cache_outdated(cached_analysis, now)
       THEN \E collected \in CollectionOutcomes, gpt \in {"ok", "raise"}, io \in IOOutcomes :
               LET r == perform_general_analysis(Store, collected, gpt, io, now)
               IN /\ cached_analysis' = r.store.mem
                  /\ cache_file' = r.store.file
                  /\ call' = [op |-> "startup", pre |-> CacheState, runs |-> 1,
                              outcome |-> IF r.raised THEN "raised" ELSE "returned",
                              result |-> NoneVal]
                  /\ phase' = IF r.raised THEN "crashed" ELSE "started"
       ELSE /\ call' = [op |-> "startup", pre |-> CacheState, runs |-> 0,
                        outcome |-> "returned", result |-> NoneVal]
            /\ phase' = "started"
            /\ UNCHANGED <<cached_analysis, cache_file>>
    /\ UNCHANGED <<now, startVars, selVars, poolVars, concVars, clsVars, extVars>>

\* the scheduler's date job (run_date = datetime.now() at import): it runs
\* startup_cache_update once, or is dropped as a misfire
StartupJob ==
    /\ phase = "started"
    /\ \/ /\ is_cache_outdated(cached_analysis, now)
          /\ \E collected \in CollectionOutcomes, gpt \in {"ok", "raise"}, io \in IOOutcomes :
                LET r == perform_general_analysis(Store, collected, gpt, io, now)
                IN /\ cached_analysis' = r.store.mem
                   /\ cache_file' = r.store.file
                   /\ call' = [op |-> "startup_job", pre |-> CacheState, runs |-> 1,
                               outcome |-> IF r.raised THEN "caught" ELSE "returned",
                               result |-> NoneVal]
       \/ /\ ~is_cache_outdated(cached_analysis, now)
          /\ call' = [op |-> "startup_job", pre |-> CacheState, runs |-> 0,
                      outcome |-> "returned", result |-> NoneVal]
          /\ UNCHANGED <<cached_analysis, cache_file>>
       \/ UNCHANGED <<cached_analysis, cache_file, call>>
    /\ phase' = "serving"
    /\ UNCHANGED <<now, startVars, selVars, poolVars, concVars, clsVars, extVars>>

\* POST /api/home {"type": "getgeneralanalysis"}
GetGeneralAnalysis ==
    /\ Serving
    /\ UNCHANGED <<now, phase, startVars, selVars, poolVars, concVars, clsVars, extVars>>
    /\ IF cached_analysis.tag = "dict" /\ ~is_cache_outdated(cached_analysis, now)
       THEN /\ call' = [op |-> "get", pre |-> CacheState, runs |-> 0,
                        outcome |-> "returned", result |-> cached_analysis]
            /\ UNCHANGED <<cached_analysis, cache_file>>
       ELSE \E collected \in CollectionOutcomes, gpt \in {"ok", "raise"}, io \in IOOutcomes :
               LET r == perform_general_analysis(Store, collected, gpt, io, now)
               IN /\ cached_analysis' = r.store.mem
                  /\ cache_file' = r.store.file
                  /\ call' = [op |-> "get", pre |-> CacheState, runs |-> 1,
                              outcome |-> IF r.raised THEN "raised" ELSE "returned",
                              result |-> r.result]

\* POST /api/home {"type": "redogeneralanalysis"}
RedoGeneralAnalysis ==
    /\ Serving
    /\ UNCHANGED <<now, phase, startVars, selVars, poolVars, concVars, clsVars, extVars>>
    /\ \E collected \in CollectionOutcomes, gpt \in {"ok", "raise"}, io \in IOOutcomes :
          LET r == perform_general_analysis(Store, collected, gpt, io, now)
          IN /\ call' = [op |-> "redo", pre |-> CacheState, runs |-> 1,
                         outcome |-> IF r.raised THEN "raised" ELSE "returned",
                         result |-> r.result]
             /\ IF r.raised
                THEN /\ cached_analysis' = r.store.mem
                     /\ cache_file' = r.store.file
                ELSE \E io2 \in IOOutcomes :
                        LET saved == save_cached_analysis(r.store, r.result, io2)
                        IN /\ cached_analysis' = saved.mem
                           /\ cache_file' = saved.file

\* the cron job and the interval job: scheduled_analysis()
ScheduledAnalysis ==
    /\ Serving
    /\ UNCHANGED <<now, phase, startVars, selVars, poolVars, concVars, clsVars, extVars>>
    /\ \E collected \in CollectionOutcomes, gpt \in {"ok", "raise"}, io \in IOOutcomes :
          LET r == perform_general_analysis(Store, collected, gpt, io, now)
          IN /\ cached_analysis' = r.store.mem
             /\ cache_file' = r.store.file
             /\ call' = [op |-> "scheduled", pre |-> CacheState, runs |-> 1,
                         outcome |-> IF r.raised THEN "caught" ELSE "returned",
                         result |-> NoneVal]

\* the wall clock moves on: to the next tick of the same second, or to the
\* next 12-hour mark
AdvanceClock ==
    /\ \/ /\ (now % SubSec) + 1 < SubSec
          /\ now' = now + 1
       \/ /\ now \div (HalfDay * SubSec) < MaxHalfDays
          /\ now' = ((now \div (HalfDay * SubSec)) + 1) * HalfDay * SubSec
    /\ UNCHANGED <<cached_analysis, cache_file, phase, call, startVars, selVars, poolVars,
                   concVars, clsVars, extVars>>

\* the process ends and main.py is imported again: the global starts as None
Restart ==
    /\ phase # "boot"
    /\ phase' = "boot"
    /\ cached_analysis' = NoneVal
    /\ call' = NoHandler
    /\ UNCHANGED <<cache_file, now, startVars, selVars, poolVars, concVars, clsVars,
                   extVars>>

Init ==
    /\ analysis = <<>>
    /\ ret = NoCall
    /\ cached_analysis = NoneVal
    /\ cache_file = Absent
    /\ now = 0
    /\ phase = "boot"
    /\ call = NoHandler
    /\ run_date = 0
    /\ startup_runs = 0
    /\ IdlePool
    /\ IdleThreads
    /\ IdleClassifier
    /\ IdleExtractor

Next ==
    \/ LoadCachedAnalysis
    \/ StartupCacheUpdate
    \/ StartupJob
    \/ GetGeneralAnalysis
    \/ RedoGeneralAnalysis
    \/ ScheduledAnalysis
    \/ AdvanceClock
    \/ Restart

Spec == Init /\ [][Next]_vars

-----------------------------------------------------------------------------
(* The cache claims.  The age of the stored result is the time from the     *)
(* second named by its last_updated to now.                                 *)

TTL == TTL_SECONDS * SubSec

Age == now - strptime(cached_analysis.last_updated)

HasResult == cached_analysis.tag = "dict"

\* C6: a getgeneralanalysis request on a cache younger than the TTL returns
\* the stored result, runs no pipeline and leaves cache and snapshot as they
\* are; on an empty cache or one older than the TTL it runs the pipeline once
\* and, when that run returns, the result is stored, is the value returned,
\* carries the time of the run and is younger than the TTL.
C6_GetServesCacheOrRecomputesOnce ==
    [][(call'.op = "get" /\ GetGeneralAnalysis) =>
        /\ (HasResult /\ Age < TTL) =>
              /\ call'.runs = 0
              /\ call'.outcome = "returned"
              /\ call'.result = cached_analysis
              /\ UNCHANGED <<cached_analysis, cache_file>>
        /\ (~HasResult \/ Age > TTL) =>
              /\ call'.runs = 1
              /\ call'.outcome = "returned" =>
                    /\ call'.result.tag = "dict"
                    /\ cached_analysis' = call'.result
                    /\ call'.result.last_updated = strftime(now')
                    /\ now' - strptime(cached_analysis'.last_updated) < TTL
      ]_vars

\* a get() answered from a result computed at least 12 hours earlier
C6_Witness ==
    /\ call.op = "get"
    /\ call.pre = "VALID"
    /\ call.runs = 0
    /\ call.result = cached_analysis
    /\ HasResult
    /\ Age >= HalfDay * SubSec
    /\ Age < TTL

\* C7 as stated: a stored result is recomputed by get() whenever its age is
\* at least 24 hours, and served whenever its age is less.
C7_StaleFromTTL ==
    [][(call'.op = "get" /\ GetGeneralAnalysis) =>
        (HasResult => (call'.runs = 1 <=> Age >= TTL))]_vars

\* C7 amended: a stored result is recomputed by get() whenever its age is
\* more than 24 hours, and served whenever its age is 24 hours or less.
C7_StaleAfterTTL ==
    [][(call'.op = "get" /\ GetGeneralAnalysis) =>
        (HasResult => (call'.runs = 1 <=> Age > TTL))]_vars

\* a get() answered from a result that is exactly 24 hours old
C7_Witness ==
    /\ call.op = "get"
    /\ call.runs = 0
    /\ call.result = cached_analysis
    /\ HasResult
    /\ Age = TTL

\* C8: a redogeneralanalysis request runs the pipeline once in every cache
\* state, and when it returns the in-memory cache is the result it returned,
\* stamped with the time of that run.
C8_RedoAlwaysRecomputesAndStores ==
    [][(call'.op = "redo" /\ RedoGeneralAnalysis) =>
        /\ call'.runs = 1
        /\ call'.outcome = "returned" =>
              /\ call'.result.tag = "dict"
              /\ cached_analysis' = call'.result
              /\ call'.result.last_updated = strftime(now')
      ]_vars

\* a redo on a valid cache that returned with the snapshot file not rewritten
C8_Witness ==
    /\ call.op = "redo"
    /\ call.pre = "VALID"
    /\ call.outcome = "returned"
    /\ cached_analysis = call.result
    /\ cache_file # cached_analysis

\* C9: scheduled_analysis never lets an exception out, and a run in which a
\* step raised leaves the in-memory cache, the snapshot file and the process
\* as they were.
C9_FailedScheduledRunKeepsCache ==
    [][(call'.op = "scheduled" /\ ScheduledAnalysis) =>
        /\ call'.outcome \in {"returned", "caught"}
        /\ phase' = phase
        /\ call'.outcome = "caught" => UNCHANGED <<cached_analysis, cache_file>>
      ]_vars

\* a scheduled run failed while a result was stored
C9_Witness ==
    /\ call.op = "scheduled"
    /\ call.outcome = "caught"
    /\ call.pre \in {"VALID", "STALE"}
    /\ HasResult
    /\ cache_file = cached_analysis

\* C10: a getgeneralanalysis request never ends in an exception: the caller
\* receives a result whose categories are stocks or "None".
C10_GetNeverRaises ==
    call.op = "get" => (call.outcome = "returned" /\ call.result.tag = "dict")

-----------------------------------------------------------------------------
(* market_sentiment_analysis.py: run_general_analysis on its thread pool.   *)
(* One task per subreddit is submitted, the tasks finish in any order, and  *)
(* the caller takes future.result() of each future.                         *)

\* what general_stock_and_social_analysis delivers for one subreddit: the
\* sorted mentions of the subreddit, or an exception of a collaborator
TaskMentions ==
    {<<>>,
     <<[symbol |-> "$GPRO", count |-> 2, sentiment |-> 872],
       [symbol |-> "$SPY", count |-> 1, sentiment |-> -448]>>,
     <<[symbol |-> "$SPY", count |-> 1, sentiment |-> -448]>>,
     <<[symbol |-> "$SPY", count |-> 2, sentiment |-> 872]>>}

TaskOutcomes == {Some(m) : m \in TaskMentions} \cup {[tag |-> "raise"]}

Unwinding == [tag |-> "unwinding"]   \* an exception pending in the `with` exit

\* the futures taken in order of completion
NextFuture_as_completed(order, collected) ==
    IF collected < Len(order) THEN order[collected + 1] ELSE 0

\* `future.result() for future in futures`: the futures in submission order
NextFuture(order, collected) == collected + 1

AllFinished == \A i \in 1..Len(futures) : futures[i].state = "finished"

\* executor.submit(general_stock_and_social_analysis, subreddit, ...) for
\* each subreddit
PoolInit ==
    /\ \E n \in 0..Len(subreddits) :
          \E outcome \in [1..n -> TaskOutcomes] :
             futures = [i \in 1..n |-> [subreddit |-> subreddits[i],
                                        outcome |-> outcome[i],
                                        state |-> "running"]]
    /\ finish_order = <<>>
    /\ results = <<>>
    /\ run_ret = NoneVal
    /\ analysis = <<>>
    /\ ret = NoCall
    /\ IdleCache
    /\ IdleThreads
    /\ IdleClassifier
    /\ IdleExtractor

\* a task of the pool returns or raises
TaskFinishes ==
    /\ \E i \in 1..Len(futures) :
          /\ futures[i].state = "running"
          /\ futures' = [futures EXCEPT ![i].state = "finished"]
          /\ finish_order' = Append(finish_order, i)
    /\ UNCHANGED <<results, run_ret, selVars, cacheVars, concVars, clsVars, extVars>>

\* results.extend(future.result() ...): the next result is appended, or the
\* task's exception is raised in the caller
CollectResult ==
    /\ run_ret = NoneVal
    /\ LET i == NextFuture(finish_order, Len(results))
       IN /\ i \in 1..Len(futures)
          /\ futures[i].state = "finished"
          /\ IF futures[i].outcome.tag = "raise"
             THEN /\ run_ret' = Unwinding
                  /\ UNCHANGED results
             ELSE /\ results' = Append(results,
                         general_stock_and_social_analysis(
                             futures[i].subreddit, futures[i].outcome.value, AnalysisLimit))
                  /\ UNCHANGED run_ret
    /\ UNCHANGED <<futures, finish_order, selVars, cacheVars, concVars, clsVars, extVars>>

\* the `with` block ends once every task has finished; return results
ReturnResults ==
    /\ run_ret = NoneVal
    /\ Len(results) = Len(futures)
    /\ AllFinished
    /\ run_ret' = Some(results)
    /\ UNCHANGED <<futures, finish_order, results, selVars, cacheVars, concVars,
                   clsVars, extVars>>

\* the `with` block ends once every task has finished; the exception of
\* future.result() leaves run_general_analysis
RaiseFromPool ==
    /\ run_ret = Unwinding
    /\ AllFinished
    /\ run_ret' = [tag |-> "raise"]
    /\ UNCHANGED <<futures, finish_order, results, selVars, cacheVars, concVars,
                   clsVars, extVars>>

PoolNext == TaskFinishes \/ CollectResult \/ ReturnResults \/ RaiseFromPool

PoolSpec == PoolInit /\ [][PoolNext]_vars

\* the call of run_general_analysis is over
RunOver == run_ret.tag \in {"value", "raise"}

\* the analysis list in which a source whose task raised has empty lists
AnalysisWithoutFailed ==
    [i \in 1..Len(futures) |->
        general_stock_and_social_analysis(
            futures[i].subreddit,
            IF futures[i].outcome.tag = "raise" THEN <<>> ELSE futures[i].outcome.value,
            AnalysisLimit)]

\* C11: when the task of a source raises, run_general_analysis still returns:
\* the result list holds empty category lists for that source and the
\* results of the other sources.
C11_FailedSourceContributesEmpty ==
    (RunOver /\ \E i \in 1..Len(futures) : futures[i].outcome.tag = "raise")
        => (run_ret.tag = "value" /\ run_ret.value = AnalysisWithoutFailed)

\* C16: whatever the order in which the tasks finish, a returned list has one
\* result per requested subreddit, result i being that of subreddit i, so the
\* three selections are those of the subreddits taken in argument order.
C16_ResultsInSubmissionOrder ==
    run_ret.tag = "value" =>
        /\ Len(run_ret.value) = Len(futures)
        /\ \A i \in 1..Len(futures) :
              /\ run_ret.value[i].subreddit = subreddits[i]
              /\ run_ret.value[i] =
                    general_stock_and_social_analysis(
                        subreddits[i], futures[i].outcome.value, AnalysisLimit)
        /\ get_top_stock(run_ret.value) = get_top_stock(AnalysisWithoutFailed)
        /\ get_worst_stock(run_ret.value) = get_worst_stock(AnalysisWithoutFailed)
        /\ get_rising_stock(run_ret.value, DefaultRisingLimit)
              = get_rising_stock(AnalysisWithoutFailed, DefaultRisingLimit)

\* three sources with different mentions whose tasks finished in the reverse
\* of the submission order, and the list was returned
C16_Witness ==
    /\ run_ret.tag = "value"
    /\ finish_order = <<3, 2, 1>>
    /\ \A i, j \in 1..3 : i # j => run_ret.value[i].top_stocks # run_ret.value[j].top_stocks

-----------------------------------------------------------------------------
(* main.py with its threads.  Flask serves each request on a thread of its  *)
(* own and the BackgroundScheduler runs its jobs on pool threads; they share*)
(* cached_analysis and CACHE_FILE and take no lock.  A step is one access   *)
(* to the shared state.  A result is named by the number of the             *)
(* perform_general_analysis run that built its Top_Stock, Worst_Stock and   *)
(* Rising_Stock records (response) and of the run that wrote its            *)
(* last_updated (stamped_by).                                               *)

Threads == {"request1", "request2", "scheduler"}
MaxComputations == 2        \* perform_general_analysis runs begun in one behaviour

IdleWorker ==
    [pc |-> "idle", kind |-> "none", run |-> 0, analysis_result |-> NoneVal,
     saves_left |-> 0, checked |-> 0, returned |-> NoneVal]

\* response_data as run number `run` leaves it at line 213, at tick t
ResponseData(run, t) ==
    [tag |-> "dict", response |-> run, last_updated |-> strftime(t), stamped_by |-> run]

\* the server has started: the start-up run stored its result
ConcInit ==
    /\ cached_analysis = ResponseData(0, 0)
    /\ cache_file = ResponseData(0, 0)
    /\ now = 0
    /\ phase = "serving"
    /\ call = NoHandler
    /\ run_date = 0
    /\ startup_runs = 0
    /\ workers = [t \in Threads |-> IdleWorker]
    /\ computations = 0
    /\ write_failed = FALSE
    /\ analysis = <<>>
    /\ ret = NoCall
    /\ IdlePool
    /\ IdleClassifier
    /\ IdleExtractor

ConcUnchanged == <<now, phase, call, startVars, selVars, poolVars, clsVars, extVars>>

\* a getgeneralanalysis request arrives
BeginGet ==
    /\ \E t \in Threads \ {"scheduler"} :
          /\ workers[t].pc = "idle"
          /\ workers' = [workers EXCEPT ![t] = [IdleWorker EXCEPT !.pc = "check", !.kind = "get"]]
    /\ UNCHANGED <<cached_analysis, cache_file, computations, write_failed, ConcUnchanged>>

\* `if cached_analysis and not is_cache_outdated()`
CheckCache ==
    /\ \E t \in Threads :
          /\ workers[t].pc = "check"
          /\ IF cached_analysis.tag = "dict" /\ ~is_cache_outdated(cached_analysis, now)
             THEN workers' = [workers EXCEPT ![t].pc = "serve",
                                             ![t].checked = cached_analysis.response]
             ELSE workers' = [workers EXCEPT ![t].pc = "perform"]
    /\ UNCHANGED <<cached_analysis, cache_file, computations, write_failed, ConcUnchanged>>

\* `return jsonify(cached_analysis)`
ServeCached ==
    /\ \E t \in Threads :
          /\ workers[t].pc = "serve"
          /\ workers' = [workers EXCEPT ![t].pc = "respond", ![t].returned = cached_analysis]
    /\ UNCHANGED <<cached_analysis, cache_file, computations, write_failed, ConcUnchanged>>

\* a redogeneralanalysis request arrives
BeginRedo ==
    /\ \E t \in Threads \ {"scheduler"} :
          /\ workers[t].pc = "idle"
          /\ workers' = [workers EXCEPT ![t] = [IdleWorker EXCEPT !.pc = "perform", !.kind = "redo"]]
    /\ UNCHANGED <<cached_analysis, cache_file, computations, write_failed, ConcUnchanged>>

\* the cron job or the interval job fires: scheduled_analysis()
BeginScheduled ==
    /\ workers["scheduler"].pc = "idle"
    /\ workers' = [workers EXCEPT !["scheduler"] =
                      [IdleWorker EXCEPT !.pc = "perform", !.kind = "scheduled"]]
    /\ UNCHANGED <<cached_analysis, cache_file, computations, write_failed, ConcUnchanged>>

\* perform_general_analysis() is entered
BeginAnalysis ==
    /\ computations < MaxComputations
    /\ \E t \in Threads :
          /\ workers[t].pc = "perform"
          /\ workers' = [workers EXCEPT ![t].pc = "running", ![t].run = computations + 1]
    /\ computations' = computations + 1
    /\ UNCHANGED <<cached_analysis, cache_file, write_failed, ConcUnchanged>>

\* lines 107-213: the pipeline raises, or response_data is complete and
\* stamped; a redo saves it a second time (line 382)
FinishAnalysis ==
    /\ \E t \in Threads :
          /\ workers[t].pc = "running"
          /\ \/ workers' = [workers EXCEPT ![t].pc = "respond",
                                           ![t].returned = [tag |-> "raise"]]
             \/ workers' = [workers EXCEPT
                               ![t].pc = "assign",
                               ![t].analysis_result = ResponseData(workers[t].run, now),
                               ![t].saves_left = IF workers[t].kind = "redo" THEN 2 ELSE 1]
    /\ UNCHANGED <<cached_analysis, cache_file, computations, write_failed, ConcUnchanged>>

\* save_cached_analysis, line 92
AssignGlobal ==
    /\ \E t \in Threads :
          /\ workers[t].pc = "assign"
          /\ cached_analysis' =
                assign_cached_analysis(cached_analysis, workers[t].analysis_result)
          /\ workers' = [workers EXCEPT ![t].pc = "write"]
    /\ UNCHANGED <<cache_file, computations, write_failed, ConcUnchanged>>

\* save_cached_analysis, lines 93-98; after the last save the result is
\* returned to the caller
WriteFile ==
    /\ \E t \in Threads :
          /\ workers[t].pc = "write"
          /\ \E io \in IOOutcomes :
                /\ cache_file' = write_cache_file(cache_file, workers[t].analysis_result, io)
                /\ write_failed' = (write_failed \/ io # "ok")
          /\ IF workers[t].saves_left > 1
             THEN workers' = [workers EXCEPT ![t].pc = "assign",
                                             ![t].saves_left = workers[t].saves_left - 1]
             ELSE workers' = [workers EXCEPT ![t].pc = "respond", ![t].saves_left = 0,
                                             ![t].returned = workers[t].analysis_result]
    /\ UNCHANGED <<cached_analysis, computations, ConcUnchanged>>

\* the response is sent (or the job ends) and the thread is free again
Respond ==
    /\ \E t \in Threads :
          /\ workers[t].pc = "respond"
          /\ workers' = [workers EXCEPT ![t] = IdleWorker]
    /\ UNCHANGED <<cached_analysis, cache_file, computations, write_failed, ConcUnchanged>>

\* time passes until the stored result is more than 24 hours old
CacheExpires ==
    /\ cached_analysis.tag = "dict"
    /\ ~is_cache_outdated(cached_analysis, now)
    /\ now' = strptime(cached_analysis.last_updated) + TTL_SECONDS * SubSec + 1
    /\ UNCHANGED <<cached_analysis, cache_file, workers, computations, write_failed,
                   phase, call, startVars, selVars, poolVars, clsVars, extVars>>

ConcNext ==
    \/ BeginGet
    \/ CheckCache
    \/ ServeCached
    \/ BeginRedo
    \/ BeginScheduled
    \/ BeginAnalysis
    \/ FinishAnalysis
    \/ AssignGlobal
    \/ WriteFile
    \/ Respond
    \/ CacheExpires

ConcSpec == ConcInit /\ [][ConcNext]_vars

\* no thread is inside a request or a job
Quiescent == \A t \in Threads : workers[t].pc \in {"idle", "respond"}

\* the threads that have just completed a forced refresh (a redo request or
\* a scheduler job) and stored its result
Refreshed ==
    {t \in Threads : /\ workers[t].pc = "respond"
                     /\ workers[t].kind \in {"redo", "scheduled"}
                     /\ workers[t].returned.tag = "dict"}

\* C12: the stores of concurrent refreshes do not interleave: once every
\* refresh has finished, and no write of the snapshot file failed, the
\* in-memory cache and the snapshot file hold the result of the same call.
C12_StoresDoNotInterleave ==
    (Quiescent /\ ~write_failed /\ Cardinality(Refreshed) >= 2) =>
        /\ cache_file = cached_analysis
        /\ \E t \in Refreshed : cached_analysis = workers[t].returned

\* the threads inside perform_general_analysis on behalf of a get() or of a
\* scheduler tick
Recomputing ==
    {t \in Threads : workers[t].pc = "running" /\ workers[t].kind \in {"get", "scheduled"}}

\* C13: among the get() requests and scheduler ticks that find the cache
\* empty or stale, at most one recomputation is in progress at any time.
C13_OneRecomputationAtATime == Cardinality(Recomputing) <= 1

\* records and timestamp of a result come from the same run
OfOneRun(d) == d.tag = "dict" => d.response = d.stamped_by

\* C14: in every interleaving, the result a request returns, and the result
\* the cache holds, pairs the records of a run with the last_updated written
\* by that same run.
C14_ResultAndTimestampOfOneRun ==
    /\ OfOneRun(cached_analysis)
    /\ OfOneRun(cache_file)
    /\ \A t \in Threads : OfOneRun(workers[t].returned)

\* a get() found the result of one run fresh, a recomputation replaced it
\* before the read, and the request returned the result of the later run
C14_Witness ==
    \E t \in Threads :
        /\ workers[t].kind = "get"
        /\ workers[t].pc = "respond"
        /\ workers[t].returned.tag = "dict"
        /\ workers[t].returned.response # workers[t].checked
        /\ \E u \in Threads \ {t} : workers[u].pc = "write"

-----------------------------------------------------------------------------
(* The selector under a reordering of the sources *)

MaxOrderMentions == 3       \* mentions over all subreddits of a reordered analysis

\* the analysis lists that are reordered: those of SelInit with at most
\* MaxOrderMentions mentions
OrderInit ==
    /\ \E n \in 0..Len(subreddits) :
          \E mentions \in [1..n -> SortedMentions] :
             /\ TotalLen(mentions) <= MaxOrderMentions
             /\ analysis = AnalysisOf(SubSeq(subreddits, 1, n), mentions)
    /\ ret = NoCall
    /\ IdleCache
    /\ IdlePool
    /\ IdleThreads
    /\ IdleClassifier
    /\ IdleExtractor

OrderSpec == OrderInit /\ [][SelNext]_vars

SourceOrders(n) == {p \in [1..n -> 1..n] : \A i, j \in 1..n : p[i] = p[j] => i = j}

\* the per-source results of a, taken in the order p
Reordered(a, p) == [i \in 1..Len(a) |-> a[p[i]]]

\* the last selector call returns the same value on every reordering
SameOnEveryOrder ==
    \A p \in SourceOrders(Len(analysis)) :
        SelectorResult(ret.fn, Reordered(analysis, p), ret.limit) = ret.value

\* C15 as stated: for every analysis list and every permutation of its
\* per-source results each selector returns the same value, ties on
\* sentiment, appearances and count included.
C15_SourceOrderInsensitive == ret.fn # "none" => SameOnEveryOrder

\* the Step 2 survivors of the last call, in pool order
Survivors(fn) ==
    LET pool == CASE fn = "get_top_stock" -> top_sentiment_stocks(analysis)
                  [] fn = "get_worst_stock" -> worst_sentiment_stocks(analysis)
                  [] fn = "get_rising_stock" -> rising_sentiment_stocks(analysis)
    IN most_frequent_stocks(pool.value)

\* no two different Step 2 survivors tie on the count that decides Step 3:
\* on the maximal count for top and worst, on any count for rising
NoCountTie(fn) ==
    LET survivors == Survivors(fn)
    IN \A i, j \in 1..Len(survivors) :
          (/\ survivors[i].count = survivors[j].count
           /\ fn # "get_rising_stock" =>
                 \A k \in 1..Len(survivors) : survivors[k].count <= survivors[i].count)
             => survivors[i] = survivors[j]

\* C15 amended: each selector returns the same value for every permutation
\* of the per-source results whenever the Step 2 survivors that tie on count
\* are equal records; ties on sentiment and on appearances do not matter.
C15_SourceOrderInsensitiveWithoutCountTie ==
    ret.fn # "none" => (SameOnEveryOrder \/ ~NoCountTie(ret.fn))

\* two symbols of different sources tie on sentiment and on appearances,
\* their counts differ, and get_top_stock returned the one of the later source
C15_Witness ==
    /\ ret.fn = "get_top_stock"
    /\ ret.value.tag = "value"
    /\ NoCountTie(ret.fn)
    /\ \E p, q \in Step2Positions("top_stocks", TRUE) :
          /\ p[1] < q[1]
          /\ EntryAt("top_stocks", p).symbol # EntryAt("top_stocks", q).symbol
          /\ EntryAt("top_stocks", p).sentiment = EntryAt("top_stocks", q).sentiment
          /\ EntryAt("top_stocks", p).count < EntryAt("top_stocks", q).count
          /\ ret.value.value = EntryAt("top_stocks", q)

-----------------------------------------------------------------------------
(* sentiment_analysis.py: extract_stock_mentions and get_reddit_analysis.   *)
(* A text unit is given by what re.findall(r"\$[A-Z]+", text) finds in it, *)
(* in text order, and by the compound score of analyze_sentiment in         *)
(* ten-thousandths; sentiments are kept in hundredths.                      *)

MaxPosts == 2               \* text units fetched for one subreddit
MaxClsLimit == 4            \* the limit argument is 0..MaxClsLimit

\* re.findall(stock_pattern, text) of a unit
UnitMatches ==
    {<<>>, <<"$SPY">>, <<"$GPRO">>, <<"$WMT">>, <<"$SPY", "$SPY">>,
     <<"$SPY", "$GPRO">>, <<"$GPRO", "$SPY">>, <<"$WMT", "$GPRO">>}

\* analyzer.polarity_scores(text)["compound"]: -0.5994, 0.0468, 0.0551
CompoundValues == {-5994, 468, 551}

TextUnit == [matches : UnitMatches, compound : CompoundValues]

\* round(x, ndigits) of the exact quotient num / den, in units of the last
\* digit kept: to nearest, a half to even
Round(num, den) ==
    LET q == (2 * num + den) \div (2 * den)
    IN IF (2 * num + den) % (2 * den) = 0 /\ q % 2 # 0 THEN q - 1 ELSE q

\* round(sentiment, 2) of a compound score
round2(compound) == Round(compound, 100)

RECURSIVE Sum(_)
Sum(values) == IF values = <<>> THEN 0 ELSE Head(values) + Sum(Tail(values))

\* normalize_score(sum / len) rounded to two decimals: ten times the average
\* when it is not zero, else 0
normalized_sentiment(values) ==
    IF Sum(values) = 0 THEN 0 ELSE Round(10 * Sum(values), Len(values))

\* index of the entry of a symbol in the mapping, 0 when it has none
IndexOfSymbol(mentions, symbol) ==
    IF \E i \in 1..Len(mentions) : mentions[i].symbol = symbol
    THEN CHOOSE i \in 1..Len(mentions) : mentions[i].symbol = symbol
    ELSE 0

\* the post of the first match kept
RecordMatch_first_post(mentions, symbol, sentiment, post) ==
    LET i == IndexOfSymbol(mentions, symbol)
    IN IF i = 0
       THEN Append(mentions, [symbol |-> symbol, count |-> 1,
                              sentiment |-> <<sentiment>>, post |-> post])
       ELSE [mentions EXCEPT ![i] = [symbol |-> symbol,
                                     count |-> mentions[i].count + 1,
                                     sentiment |-> Append(mentions[i].sentiment, sentiment),
                                     post |-> mentions[i].post]]

\* lines 239-241 for one match: the entry is created on first sight (a new
\* key goes last), the count is incremented, the sentiment appended and the
\* post replaced
RecordMatch(mentions, symbol, sentiment, post) ==
    LET i == IndexOfSymbol(mentions, symbol)
    IN IF i = 0
       THEN Append(mentions, [symbol |-> symbol, count |-> 1,
                              sentiment |-> <<sentiment>>, post |-> post])
       ELSE [mentions EXCEPT ![i] = [symbol |-> symbol,
                                     count |-> mentions[i].count + 1,
                                     sentiment |-> Append(mentions[i].sentiment, sentiment),
                                     post |-> post]]

\* `for stock in matches`
RECURSIVE RecordMatches(_, _, _, _)
RecordMatches(mentions, matches, sentiment, post) ==
    IF matches = <<>> THEN mentions
    ELSE RecordMatches(RecordMatch(mentions, Head(matches), sentiment, post),
                       Tail(matches), sentiment, post)

\* `for post in posts`, from unit number k on; a unit is named by its index
RECURSIVE RecordPosts(_, _, _)
RecordPosts(mentions, units, k) ==
    IF k > Len(units) THEN mentions
    ELSE RecordPosts(RecordMatches(mentions, units[k].matches,
                                   round2(units[k].compound), k),
                     units, k + 1)

\* extract_stock_mentions: the mapping in insertion order, each sentiment
\* list replaced by its normalized average
extract_stock_mentions(units) ==
    LET collected == RecordPosts(<<>>, units, 1)
    IN [i \in 1..Len(collected) |->
           [collected[i] EXCEPT !.sentiment = normalized_sentiment(collected[i].sentiment)]]

\* the mapping left in insertion order
sorted_by_sentiment_unsorted(mentions) == mentions

\* sorted(sentiment_data.items(), key=sentiment, reverse=True): stable
RECURSIVE InsertBySentiment(_, _)
InsertBySentiment(x, s) ==
    IF s = <<>> THEN <<x>>
    ELSE IF s[1].sentiment > x.sentiment THEN <<s[1]>> \o InsertBySentiment(x, Tail(s))
    ELSE <<x>> \o s

RECURSIVE SortedBySentimentDesc(_)
SortedBySentimentDesc(s) ==
    IF s = <<>> THEN <<>>
    ELSE InsertBySentiment(Head(s), SortedBySentimentDesc(Tail(s)))

sorted_by_sentiment(mentions) == SortedBySentimentDesc(mentions)

\* the average of some symbol falls exactly between two hundredths, where
\* the binary representation of the float decides the rounding
OnRoundingBoundary(units) ==
    LET collected == RecordPosts(<<>>, units, 1)
    IN \E i \in 1..Len(collected) :
          LET num == 20 * Sum(collected[i].sentiment)
              den == Len(collected[i].sentiment)
          IN num % den = 0 /\ (num \div den) % 2 = 1

\* get_reddit_analysis(subreddit, limit) is called and get_reddit_posts has
\* returned at most limit units
RedditInit ==
    /\ \E limit \in 0..MaxClsLimit :
          \E n \in 0..MaxPosts :
             /\ n <= limit
             /\ \E units \in [1..n -> TextUnit] :
                   /\ ~OnRoundingBoundary(units)
                   /\ posts = units
                   /\ classified = [limit |-> limit, lists |-> NoneVal]
    /\ stock_mentions = NoneVal
    /\ sentiment_data = <<>>
    /\ analysis = <<>>
    /\ ret = NoCall
    /\ IdleCache
    /\ IdlePool
    /\ IdleThreads

\* sentiment_data = extract_stock_mentions(posts)
ExtractStockMentions ==
    /\ stock_mentions = NoneVal
    /\ stock_mentions' = Some(extract_stock_mentions(posts))
    /\ sentiment_data' = extract_stock_mentions(posts)
    /\ UNCHANGED <<posts, classified, selVars, cacheVars, poolVars, concVars>>

\* lines 273-290: the sort, the three lists, the return
ClassifyStocks ==
    /\ stock_mentions # NoneVal
    /\ classified.lists = NoneVal
    /\ classified' = [classified EXCEPT !.lists =
                         get_reddit_analysis(sorted_by_sentiment(sentiment_data),
                                             classified.limit)]
    /\ UNCHANGED <<posts, stock_mentions, sentiment_data, selVars, cacheVars, poolVars,
                   concVars>>

RedditNext == ExtractStockMentions \/ ClassifyStocks

RedditSpec == RedditInit /\ [][RedditNext]_vars

-----------------------------------------------------------------------------
(* The classifier and extractor claims, stated on positions: the mapping's  *)
(* entries by rank and the matches by <<unit, position in the unit>>.       *)

Classified == classified # NoneVal /\ classified.lists # NoneVal

\* place of entry i of the mapping in the order by sentiment descending,
\* entries of equal sentiment in discovery order
Rank(mentions, i) ==
    1 + Cardinality({j \in 1..Len(mentions) : mentions[j].sentiment > mentions[i].sentiment})
      + Cardinality({j \in 1..(i - 1) : mentions[j].sentiment = mentions[i].sentiment})

\* the mapping in that order
ByRank(mentions) ==
    [k \in 1..Len(mentions) |->
        mentions[CHOOSE i \in 1..Len(mentions) : Rank(mentions, i) = k]]

Min(a, b) == IF a < b THEN a ELSE b

\* C17: top_stocks is the first floor(limit/2) entries and worst_stocks the
\* last floor(limit/2) entries of the mentions sorted by sentiment descending
\* (the whole list when it is shorter), for every limit, odd ones included.
C17_TopAndWorstAreHalfLimitSlices ==
    Classified =>
        LET ranked == ByRank(sentiment_data)
            n == Len(sentiment_data)
            half == Min(classified.limit \div 2, n)
        IN /\ classified.lists.top_stocks = SubSeq(ranked, 1, half)
           /\ classified.lists.worst_stocks = SubSeq(ranked, n - half + 1, n)

\* the list is in sentiment descending order, equal sentiments in the order
\* in which their symbols were first seen
SortedStable(list) ==
    \A a, b \in 1..Len(list) :
        a < b =>
            \/ list[a].sentiment > list[b].sentiment
            \/ /\ list[a].sentiment = list[b].sentiment
               /\ IndexOfSymbol(sentiment_data, list[a].symbol)
                     < IndexOfSymbol(sentiment_data, list[b].symbol)

\* C18: each of top_stocks, worst_stocks and rising_stocks is sorted by
\* sentiment descending with equal sentiments in discovery order, and
\* len(top_stocks) + len(worst_stocks) <= 2 * limit.
C18_ListsSortedAndBounded ==
    Classified =>
        /\ SortedStable(classified.lists.top_stocks)
        /\ SortedStable(classified.lists.worst_stocks)
        /\ SortedStable(classified.lists.rising_stocks)
        /\ Len(classified.lists.top_stocks) + Len(classified.lists.worst_stocks)
              <= 2 * classified.limit

\* two symbols of equal sentiment, the one first seen not the first in
\* alphabetical order, both in top_stocks
C18_Witness ==
    /\ Classified
    /\ Len(classified.lists.top_stocks) = 2
    /\ classified.lists.top_stocks[1].sentiment = classified.lists.top_stocks[2].sentiment
    /\ classified.lists.top_stocks[1].symbol = "$WMT"
    /\ classified.lists.top_stocks[2].symbol = "$GPRO"
    /\ Len(classified.lists.worst_stocks) = 2

\* C19: rising_stocks holds exactly the mentions whose sentiment is greater
\* than 0.5, in sorted order, whatever the limit; an empty mapping gives
\* three empty lists.
C19_RisingIsAboveThreshold ==
    Classified =>
        /\ classified.lists.rising_stocks =
              SelectSeq(ByRank(sentiment_data), LAMBDA s : s.sentiment > 50)
        /\ \A limit \in 0..MaxClsLimit :
              get_reddit_analysis(sorted_by_sentiment(sentiment_data), limit).rising_stocks
                 = classified.lists.rising_stocks
        /\ sentiment_data = <<>> =>
              /\ classified.lists.top_stocks = <<>>
              /\ classified.lists.worst_stocks = <<>>
              /\ classified.lists.rising_stocks = <<>>

\* a mention at exactly 0.5 and a mention at 0.6: only the second is rising
C19_Witness ==
    /\ Classified
    /\ \E i \in 1..Len(sentiment_data) : sentiment_data[i].sentiment = 50
    /\ Len(classified.lists.rising_stocks) = 1
    /\ classified.lists.rising_stocks[1].sentiment = 60

\* the matches of all units: <<unit, position in the unit's matches>>
AllMatchPositions ==
    UNION {{<<k, j>> : j \in 1..Len(posts[k].matches)} : k \in 1..Len(posts)}

\* the matches of a symbol
MatchPositions(symbol) ==
    {p \in AllMatchPositions : posts[p[1]].matches[p[2]] = symbol}

\* the sum of the rounded unit scores over the matches of a symbol in units k..
RECURSIVE ScoreSum(_, _)
ScoreSum(symbol, k) ==
    IF k > Len(posts) THEN 0
    ELSE Cardinality({p \in MatchPositions(symbol) : p[1] = k}) * round2(posts[k].compound)
         + ScoreSum(symbol, k + 1)

MatchedSymbols == {posts[p[1]].matches[p[2]] : p \in AllMatchPositions}

\* C20: the mapping has one entry for each symbol matched in some unit and no
\* other; the count of an entry is the number of matches of its symbol over
\* all units, each match contributing the score of its unit to the average;
\* its post is the last unit that contains the symbol.
C20_ExtractCountsEveryMatch ==
    stock_mentions # NoneVal =>
        LET mentions == stock_mentions.value
        IN /\ {mentions[i].symbol : i \in 1..Len(mentions)} = MatchedSymbols
           /\ \A i, j \in 1..Len(mentions) : mentions[i].symbol = mentions[j].symbol => i = j
           /\ \A i \in 1..Len(mentions) :
                 LET positions == MatchPositions(mentions[i].symbol)
                 IN /\ mentions[i].count = Cardinality(positions)
                    /\ mentions[i].sentiment =
                          (IF ScoreSum(mentions[i].symbol, 1) = 0 THEN 0
                           ELSE Round(10 * ScoreSum(mentions[i].symbol, 1),
                                      Cardinality(positions)))
                    /\ \E p \in positions : p[1] = mentions[i].post
                    /\ \A p \in positions : p[1] <= mentions[i].post

\* a symbol matched twice in the first unit and once in the second, whose
\* scores differ, next to a symbol seen only in the second unit
C20_Witness ==
    /\ stock_mentions # NoneVal
    /\ Len(posts) = 2
    /\ posts[1].matches = <<"$SPY", "$SPY">>
    /\ posts[2].matches = <<"$GPRO", "$SPY">>
    /\ posts[1].compound # posts[2].compound
    /\ stock_mentions.value[1].count = 3
    /\ stock_mentions.value[1].post = 2

-----------------------------------------------------------------------------
(* The snapshot: failures of its load and save, and the save/load round trip *)

\* the last handler or job stored a result and its write of CACHE_FILE failed
\* (after a successful write the file holds the stored result)
SaveFailed ==
    /\ call.runs = 1
    /\ call.outcome = "returned"
    /\ cache_file # cached_analysis

\* load_cached_analysis found CACHE_FILE and could not read it
LoadFailed ==
    /\ phase = "loaded"
    /\ cache_file # Absent
    /\ cached_analysis # cache_file

\* C21: no handler or job lets a failure of the snapshot load or of the
\* snapshot save out to its caller, and after either failure the in-memory
\* cache is EMPTY, so that the next get() or start-up check recomputes.
C21_SnapshotFailureLeavesCacheEmpty ==
    /\ LoadFailed => (cached_analysis = NoneVal /\ is_cache_outdated(cached_analysis, now))
    /\ SaveFailed => (cached_analysis = NoneVal /\ is_cache_outdated(cached_analysis, now))

-----------------------------------------------------------------------------
(* The snapshot as it is serialized.  In the cache machine above a snapshot *)
(* file is named by the record that was dumped into it; here the record is  *)
(* a tree of typed Python objects and the file a JSON document, and         *)
(* json.dump and json.load convert between the two.  Floats are kept in     *)
(* hundredths; a string is a text, or the text strftime made of a second.   *)

PyStr(text) == [py |-> "str", s |-> text, at |-> 0]
PyTime(second) == [py |-> "str", s |-> "%Y-%m-%d %H:%M:%S", at |-> second]
PyInt(n) == [py |-> "int", n |-> n]
PyFloat(hundredths) == [py |-> "float", n |-> hundredths]
PyList(items) == [py |-> "list", items |-> items]
PyDict(keys, values) == [py |-> "dict", keys |-> keys, values |-> values]

\* d[key] of a dict that has the key
Item(d, key) == d.values[CHOOSE i \in 1..Len(d.keys) : d.keys[i] = key]

\* every number read back as a float
parse_number_as_float(token) == PyFloat(token.n)

\* json.load on a number: an integer literal is an int, a literal with a
\* fraction is a float
parse_number(token) ==
    IF token.literal = "integer" THEN PyInt(token.n) ELSE PyFloat(token.n)

\* json.dump: None is null, a str a string, an int an integer literal, a
\* float its repr (0.0, 8.72), a list an array, a dict an object whose
\* members are in insertion order
RECURSIVE json_dump(_)
json_dump(obj) ==
    IF obj = NoneVal THEN [json |-> "null"]
    ELSE CASE obj.py = "str" -> [json |-> "string", s |-> obj.s, at |-> obj.at]
           [] obj.py = "int" -> [json |-> "number", literal |-> "integer", n |-> obj.n]
           [] obj.py = "float" -> [json |-> "number", literal |-> "real", n |-> obj.n]
           [] obj.py = "list" ->
                 [json |-> "array",
                  items |-> [i \in 1..Len(obj.items) |-> json_dump(obj.items[i])]]
           [] obj.py = "dict" ->
                 [json |-> "object",
                  keys |-> obj.keys,
                  values |-> [i \in 1..Len(obj.values) |-> json_dump(obj.values[i])]]

\* json.load, the document read back into Python objects
RECURSIVE json_load(_)
json_load(doc) ==
    CASE doc.json = "null" -> NoneVal
      [] doc.json = "string" -> [py |-> "str", s |-> doc.s, at |-> doc.at]
      [] doc.json = "number" -> parse_number(doc)
      [] doc.json = "array" ->
            PyList([i \in 1..Len(doc.items) |-> json_load(doc.items[i])])
      [] doc.json = "object" ->
            PyDict(doc.keys, [i \in 1..Len(doc.values) |-> json_load(doc.values[i])])

\* analyze_stock_data_with_gpt: the fields read at lines 150-157
GPTAnalysis(score) ==
    PyDict(<<"overview", "market_sentiment", "technical_analysis",
             "fundamental_analysis", "prediction", "Confidence Score">>,
           <<PyStr("overview"), PyStr("sentiment"), PyStr("technical"),
             PyStr("fundamental"), PyStr("prediction"), score>>)

\* parse_post_text: the structured post of a mention
StructuredPost(comments) ==
    PyDict(<<"title", "text", "comments", "full_text">>,
           <<PyStr("title"), PyStr("text"), PyList(comments), PyStr("full text")>>)

\* lines 138-158: one category of response_data["response"]
StockEntry(symbol, company_name, count, sentiment, post, price, high, low, change, percentage_change, rsi, gpt) ==
    PyDict(<<"symbol", "company_name", "count", "sentiment", "post", "price", "high",
             "low", "change", "percentage_change", "rsi", "GPT_Analysis">>,
           <<PyStr(symbol), company_name, PyInt(count), sentiment, post, price, high,
             low, change, percentage_change, rsi, gpt>>)

\* a stock with its quote
QuotedStock ==
    StockEntry("$SPY", PyStr("SPDR S&P 500 ETF Trust"), 2, PyFloat(872),
               StructuredPost(<<PyDict(<<"number", "content">>,
                                       <<PyInt(1), PyStr("comment")>>)>>),
               PyFloat(59012), PyFloat(59100), PyFloat(58000), PyFloat(-150),
               PyFloat(-25), PyFloat(6431), GPTAnalysis(PyInt(85)))

\* a stock whose average sentiment is the int 0 of normalize_score, whose
\* prices are whole numbers and whose RSI is the int 0 of calculate_rsi
FlatStock ==
    StockEntry("$WMT", PyStr("Walmart Inc."), 1, PyInt(0), StructuredPost(<<>>),
               PyFloat(10000), PyFloat(10000), PyFloat(10000), PyFloat(0),
               PyFloat(0), PyInt(0), GPTAnalysis(PyStr("85")))

\* a stock whose quote failed: merge_stock_data lines 260-275
UnquotedStock ==
    StockEntry("$GPRO", NoneVal, 1, PyFloat(-448), StructuredPost(<<>>),
               NoneVal, NoneVal, NoneVal, NoneVal, NoneVal, NoneVal,
               GPTAnalysis(PyFloat(4050)))

\* response_data["response"] of some runs: Top_Stock, Worst_Stock, Rising_Stock
SnapshotResponses ==
    {<<PyStr("None"), PyStr("None"), PyStr("None")>>,
     <<QuotedStock, UnquotedStock, PyStr("None")>>,
     <<QuotedStock, FlatStock, QuotedStock>>,
     <<FlatStock, UnquotedStock, FlatStock>>}

\* response_data of perform_general_analysis at tick t (lines 132-213)
SnapshotRecord(response, t) ==
    PyDict(<<"response", "last_updated">>,
           <<PyDict(<<"Top_Stock", "Worst_Stock", "Rising_Stock">>, response),
             PyTime(strftime(t))>>)

\* save_cached_analysis on the serialized snapshot
save_snapshot(store, analysis_data, io) ==
    [mem  |-> analysis_data,
     file |-> CASE io = "ok" -> json_dump(analysis_data)
                [] io = "open_failed" -> store.file
                [] io = "dump_failed" -> Corrupt]

\* load_cached_analysis on the serialized snapshot
load_snapshot(mem, file, io) ==
    IF file = Absent THEN mem
    ELSE IF io = "ok" /\ file # Corrupt THEN json_load(file)
    ELSE NoneVal

\* is_cache_outdated on the loaded objects
is_snapshot_outdated(cached, t) ==
    IF cached = NoneVal THEN TRUE
    ELSE IF \A i \in 1..Len(cached.keys) : cached.keys[i] # "last_updated" THEN TRUE
    ELSE t - strptime(Item(cached, "last_updated").at) > TTL_SECONDS * SubSec

SnapshotInit ==
    /\ cached_analysis = NoneVal
    /\ cache_file = Absent
    /\ now = 0
    /\ phase = "serving"
    /\ call = NoHandler
    /\ run_date = 0
    /\ startup_runs = 0
    /\ analysis = <<>>
    /\ ret = NoCall
    /\ IdlePool
    /\ IdleThreads
    /\ IdleClassifier
    /\ IdleExtractor

\* a run of perform_general_analysis reaches line 216
SaveSnapshot ==
    /\ phase = "serving"
    /\ \E response \in SnapshotResponses, io \in IOOutcomes :
          LET response_data == SnapshotRecord(response, now)
              saved == save_snapshot(Store, response_data, io)
          IN /\ cached_analysis' = saved.mem
             /\ cache_file' = saved.file
             /\ call' = [op |-> "save", pre |-> "EMPTY", runs |-> 1, outcome |-> io,
                         result |-> response_data]
    /\ UNCHANGED <<now, phase, startVars, selVars, poolVars, concVars, clsVars, extVars>>

\* the process ends and main.py is imported again
RestartAfterSave ==
    /\ phase = "serving"
    /\ call.op = "save"
    /\ phase' = "boot"
    /\ cached_analysis' = NoneVal
    /\ UNCHANGED <<cache_file, now, call, startVars, selVars, poolVars, concVars, clsVars,
                   extVars>>

\* module level: load_cached_analysis()
LoadSnapshot ==
    /\ phase = "boot"
    /\ \E io \in {"ok", "fail"} :
          cached_analysis' = load_snapshot(cached_analysis, cache_file, io)
    /\ phase' = "loaded"
    /\ UNCHANGED <<cache_file, now, call, startVars, selVars, poolVars, concVars, clsVars,
                   extVars>>

SnapshotNext == SaveSnapshot \/ AdvanceClock \/ RestartAfterSave \/ LoadSnapshot

SnapshotSpec == SnapshotInit /\ [][SnapshotNext]_vars

\* the process was restarted after a save whose write succeeded, and the
\* snapshot was read
ReloadedAfterSave ==
    /\ phase = "loaded"
    /\ call.op = "save"
    /\ call.outcome = "ok"
    /\ cached_analysis # NoneVal

-----------------------------------------------------------------------------
(* The start-up sequence of main.py with its timing: the date job is added  *)
(* with run_date = datetime.now() (line 454), the snapshot is loaded (458), *)
(* startup_cache_update() is called directly (461) and scheduler.start()    *)
(* (464) lets the scheduler come to the date job, which calls               *)
(* startup_cache_update() again unless its run time was missed.             *)

\* CACHE_FILE as a starting process may find it: absent, truncated, or the
\* snapshot of a run at tick 0
StartupSnapshots ==
    {Absent, Corrupt} \cup
    {perform_general_analysis([mem |-> NoneVal, file |-> Absent],
                              Some(m), "ok", "ok", 0).result : m \in CollectedMentions}

\* the process starts when the snapshot was written, or one tick short of
\* 24 hours later
StartTicks == {0, TTL_SECONDS * SubSec - 1}

StartupInit ==
    /\ cache_file \in StartupSnapshots
    /\ now \in StartTicks
    /\ cached_analysis = NoneVal
    /\ phase = "boot"
    /\ call = NoHandler
    /\ run_date = 0
    /\ startup_runs = 0
    /\ analysis = <<>>
    /\ ret = NoCall
    /\ IdlePool
    /\ IdleThreads
    /\ IdleClassifier
    /\ IdleExtractor

\* lines 451-458: the date job is added, then load_cached_analysis()
ImportMain ==
    /\ phase = "boot"
    /\ run_date' = now
    /\ \E io \in {"ok", "fail"} :
          cached_analysis' = load_cached_analysis(cached_analysis, cache_file, io)
    /\ phase' = "loaded"
    /\ UNCHANGED <<cache_file, now, call, startup_runs, selVars, poolVars, concVars,
                   clsVars, extVars>>

\* startup_cache_update() for the caller named by op; the store it leaves,
\* the record of the call and whether an exception left it
startup_cache_update(op, collected, gpt, io) ==
    IF is_cache_outdated(cached_analysis, now)
    THEN LET r == perform_general_analysis(Store, collected, gpt, io, now)
         IN [store |-> r.store, runs |-> 1, raised |-> r.raised,
             call |-> [op |-> op, pre |-> CacheState, runs |-> 1,
                       outcome |-> IF r.raised THEN "raised" ELSE "returned",
                       result |-> NoneVal]]
    ELSE [store |-> Store, runs |-> 0, raised |-> FALSE,
          call |-> [op |-> op, pre |-> CacheState, runs |-> 0,
                    outcome |-> "returned", result |-> NoneVal]]

\* line 461, module level: an exception of startup_cache_update() ends the
\* import of main.py before scheduler.start()
AfterStartupCheck(raised) == IF raised THEN "crashed" ELSE "started"

\* line 461: startup_cache_update()
StartupCheck ==
    /\ phase = "loaded"
    /\ \E collected \in CollectionOutcomes, gpt \in {"ok", "raise"}, io \in IOOutcomes :
          LET u == startup_cache_update("startup", collected, gpt, io)
          IN /\ cached_analysis' = u.store.mem
             /\ cache_file' = u.store.file
             /\ call' = u.call
             /\ startup_runs' = startup_runs + u.runs
             /\ phase' = AfterStartupCheck(u.raised)
    /\ UNCHANGED <<now, run_date, selVars, poolVars, concVars, clsVars, extVars>>

\* the date job is run however late the scheduler comes to it
Misfired_never(scheduled, t) == FALSE

\* the scheduler skips a job that it comes to more than misfire_grace_time
\* after its run time
Misfired(scheduled, t) == t - scheduled > MisfireGraceSeconds * SubSec

\* line 464 and the scheduler thread: the date job calls
\* startup_cache_update(), whose exception the scheduler logs, or is skipped
DateJob ==
    /\ phase = "started"
    /\ IF Misfired(run_date, now)
       THEN /\ call' = [op |-> "missed", pre |-> CacheState, runs |-> 0,
                        outcome |-> "none", result |-> NoneVal]
            /\ UNCHANGED <<cached_analysis, cache_file, startup_runs>>
       ELSE \E collected \in CollectionOutcomes, gpt \in {"ok", "raise"}, io \in IOOutcomes :
               LET u == startup_cache_update("startup_job", collected, gpt, io)
               IN /\ cached_analysis' = u.store.mem
                  /\ cache_file' = u.store.file
                  /\ call' = u.call
                  /\ startup_runs' = startup_runs + u.runs
    /\ phase' = "serving"
    /\ UNCHANGED <<now, run_date, selVars, poolVars, concVars, clsVars, extVars>>

StartupNext == ImportMain \/ StartupCheck \/ DateJob \/ AdvanceClock

StartupSpec == StartupInit /\ [][StartupNext]_vars

\* a start-up check (the direct call, or the date job when it is not
\* skipped) is taking place in this step
DirectCheckStep == phase = "loaded" /\ phase' # "loaded"
DateJobStep == phase = "started" /\ phase' = "serving" /\ ~Misfired(run_date, now)

\* the check of this step runs the pipeline exactly when the cache is empty
\* or older than the TTL
ChecksFreshness ==
    /\ (~HasResult \/ Age > TTL) => startup_runs' = startup_runs + 1
    /\ (HasResult /\ Age < TTL) => startup_runs' = startup_runs

\* C23 as stated: each start-up check runs the pipeline if and only if the
\* cache is EMPTY or STALE, the direct call and the date job together run it
\* at most once, and a process whose snapshot the direct check found VALID
\* runs no pipeline during start-up.
C23_StartupRunsPipelineOnlyIfNotValid ==
    /\ [](startup_runs <= 1)
    /\ [][(DirectCheckStep \/ DateJobStep) => ChecksFreshness]_vars
    /\ []((call.op = "startup" /\ call.pre = "VALID") => startup_runs = 0)
    /\ [][(phase = "started" /\ call.op = "startup" /\ call.pre = "VALID")
              => startup_runs' = 0]_vars

\* C23 amended: each start-up check runs the pipeline if and only if the
\* cache is EMPTY or STALE at that check, the direct call and the date job
\* together run it at most once, and a process whose snapshot the direct
\* check found VALID runs no pipeline during start-up unless the snapshot has
\* passed the TTL by the time the date job checks it.
C23_StartupRunsPipelineAtMostOnce ==
    /\ [](startup_runs <= 1)
    /\ [][(DirectCheckStep \/ DateJobStep) => ChecksFreshness]_vars
    /\ []((call.op = "startup" /\ call.pre = "VALID") => startup_runs = 0)
    /\ [][(phase = "started" /\ call.op = "startup" /\ call.pre = "VALID"
             /\ ~(Age > TTL))
              => startup_runs' = 0]_vars

\* the direct check ran the pipeline on an empty cache, and the date job,
\* not skipped, found the result fresh and ran nothing
C23_Witness ==
    /\ phase = "serving"
    /\ call.op = "startup_job"
    /\ call.pre = "VALID"
    /\ call.runs = 0
    /\ startup_runs = 1
    /\ cache_file = cached_analysis

\* C24: an exception of the recomputation of the start-up check does not end
\* the process: the start-up sequence goes on to scheduler.start() and the
\* process serves requests.
C24_StartupFailureIsContained == phase # "crashed"

-----------------------------------------------------------------------------
(* Ties on count.  The pool is in iteration order: the sources in the order *)
(* of the analysis list, the entries of a source in the order of its list.  *)

\* position q comes before position p in the pool
Before(q, p) == q[1] < p[1] \/ (q[1] = p[1] /\ q[2] < p[2])

\* the Step 2 survivors that go before survivor p in the order by count
\* descending, equal counts in pool order
Ahead(cat, atHead, p) ==
    {q \in Step2Positions(cat, atHead) :
        \/ EntryAt(cat, q).count > EntryAt(cat, p).count
        \/ EntryAt(cat, q).count = EntryAt(cat, p).count /\ Before(q, p)}

\* the survivor at place k of that order
SurvivorAt(cat, atHead, k) ==
    EntryAt(cat, CHOOSE p \in Step2Positions(cat, atHead) :
                     Cardinality(Ahead(cat, atHead, p)) = k - 1)

\* C25: when several Step 2 survivors tie on the maximal count, get_top_stock
\* and get_worst_stock return the first of them in pool iteration order, and
\* get_rising_stock returns the survivors by count descending with those of
\* equal count in pool order.
C25_CountTiesGoToFirstInPoolOrder ==
    /\ (ret.fn = "get_top_stock" /\ ret.value.tag = "value")
          => ret.value.value = SurvivorAt("top_stocks", TRUE, 1)
    /\ (ret.fn = "get_worst_stock" /\ ret.value.tag = "value")
          => ret.value.value = SurvivorAt("worst_stocks", FALSE, 1)
    /\ (ret.fn = "get_rising_stock" /\ ret.value.tag = "value")
          => /\ Len(ret.value.value)
                   = Min(RisingSlice, Cardinality(Step2Positions("rising_stocks", TRUE)))
             /\ \A k \in 1..Len(ret.value.value) :
                   ret.value.value[k] = SurvivorAt("rising_stocks", TRUE, k)

\* two different stocks of two sources survive Step 2 with the same count,
\* and get_worst_stock returned the one of the earlier source
C25_Witness ==
    /\ ret.fn = "get_worst_stock"
    /\ ret.value.tag = "value"
    /\ \E p, q \in Step2Positions("worst_stocks", FALSE) :
          /\ p[1] < q[1]
          /\ EntryAt("worst_stocks", p).symbol # EntryAt("worst_stocks", q).symbol
          /\ EntryAt("worst_stocks", p).count = EntryAt("worst_stocks", q).count
          /\ \A r \in Step2Positions("worst_stocks", FALSE) :
                EntryAt("worst_stocks", r).count <= EntryAt("worst_stocks", p).count
          /\ ret.value.value = EntryAt("worst_stocks", p)

-----------------------------------------------------------------------------
(* market_analysis.py: merge_stock_data decorates every entry of the three  *)
(* category lists with the quote of its symbol, and the selector then works *)
(* on the decorated entries.  A task of run_general_analysis is given by    *)
(* what general_reddit_analysis returned for its subreddit.                 *)

MaxQuotedMentions == 2      \* mentions over all subreddits of a decorated analysis

\* get_stock_data: lines 210-213 and 229-232
QuoteError == [tag |-> "error", error |-> "possibly delisted; no price data found"]

\* get_stock_data: the dict of monthly_analysis, prices in hundredths
QuoteOf(company_name, price, high, low, change, percentage_change, rsi) ==
    [tag |-> "quote", company_name |-> company_name, price |-> price, high |-> high,
     low |-> low, change |-> change, percentage_change |-> percentage_change, rsi |-> rsi]

QuoteOutcomes ==
    {QuoteError,
     QuoteOf("SPDR S&P 500 ETF Trust", 59012, 59100, 58000, -150, -25, 6431),
     QuoteOf("GoPro, Inc.", 101, 250, 99, 2, 202, 0)}

\* lines 258-292: the entry appended for one stock of a category
MergedStock(details, stock_data) ==
    IF stock_data.tag = "error"
    THEN [symbol |-> details.symbol, company_name |-> NoneVal,
          count |-> details.count, sentiment |-> details.sentiment,
          post |-> details.post, price |-> NoneVal, high |-> NoneVal, low |-> NoneVal,
          change |-> NoneVal, percentage_change |-> NoneVal, rsi |-> NoneVal,
          error |-> stock_data.error]
    ELSE [symbol |-> details.symbol, company_name |-> Some(stock_data.company_name),
          count |-> details.count, sentiment |-> details.sentiment,
          post |-> details.post, price |-> Some(stock_data.price),
          high |-> Some(stock_data.high), low |-> Some(stock_data.low),
          change |-> Some(stock_data.change),
          percentage_change |-> Some(stock_data.percentage_change),
          rsi |-> Some(stock_data.rsi)]

\* a stock without a quote left out of the list
MergedCategory_skip_errors(stocks, quote) ==
    LET quoted == SelectSeq(stocks, LAMBDA details : quote[details.symbol].tag # "error")
    IN [j \in 1..Len(quoted) |-> MergedStock(quoted[j], quote[quoted[j].symbol])]

\* `for stock, details in stocks`: one entry per stock, in the order of the list
MergedCategory(stocks, quote) ==
    [j \in 1..Len(stocks) |-> MergedStock(stocks[j], quote[stocks[j].symbol])]

\* merge_stock_data; quote[symbol] is what get_stock_data returns
merge_stock_data(reddit_analysis, quote) ==
    [top_stocks    |-> MergedCategory(reddit_analysis.top_stocks, quote),
     worst_stocks  |-> MergedCategory(reddit_analysis.worst_stocks, quote),
     rising_stocks |-> MergedCategory(reddit_analysis.rising_stocks, quote)]

\* the mentions of a subreddit with the post kept for each symbol
WithPost(mentions, subreddit) ==
    [j \in 1..Len(mentions) |->
        [symbol |-> mentions[j].symbol, count |-> mentions[j].count,
         sentiment |-> mentions[j].sentiment,
         post |-> <<subreddit, mentions[j].symbol>>]]

\* general_stock_and_social_analysis of one task: lines 42-47
MergedAnalysis(task, quote) ==
    [subreddit |-> task.subreddit]
        @@ merge_stock_data(get_reddit_analysis(task.outcome.value, AnalysisLimit), quote)

\* what general_reddit_analysis finds in one subreddit: the mentions of
\* TaskMentions, and a stock that ties with one of them on sentiment and count
QuotedTaskMentions ==
    TaskMentions \cup {<<[symbol |-> "$GPRO", count |-> 2, sentiment |-> 872]>>}

MarketInit ==
    /\ \E n \in 0..Len(subreddits) :
          \E mentions \in [1..n -> QuotedTaskMentions] :
             /\ TotalLen(mentions) <= MaxQuotedMentions
             /\ futures = [i \in 1..n |->
                              [subreddit |-> subreddits[i],
                               outcome |-> Some(WithPost(mentions[i], subreddits[i])),
                               state |-> "finished"]]
    /\ finish_order = <<>>
    /\ results = <<>>
    /\ run_ret = NoneVal
    /\ analysis = <<>>
    /\ ret = NoCall
    /\ IdleCache
    /\ IdleThreads
    /\ IdleClassifier
    /\ IdleExtractor

\* the mentions of all tasks are numbered through: the number of mention j
\* of task i
RECURSIVE MentionNumber(_, _)
MentionNumber(i, j) ==
    IF i = 1 THEN j ELSE Len(futures[i - 1].outcome.value) + MentionNumber(i - 1, j)

\* what get_stock_data returns to task i for each symbol of its mentions,
\* when outcomes[k] is the outcome for mention number k
QuotesOfTask(i, outcomes) ==
    [symbol \in Symbols |->
        LET j == IndexOfSymbol(futures[i].outcome.value, symbol)
        IN IF j = 0 THEN QuoteError ELSE outcomes[MentionNumber(i, j)]]

\* the quotes the tasks may get: get_stock_data is called for the symbols
\* of the task's own mentions
TaskQuotes ==
    LET total == IF futures = <<>> THEN 0
                 ELSE MentionNumber(Len(futures), Len(futures[Len(futures)].outcome.value))
    IN {[i \in 1..Len(futures) |-> QuotesOfTask(i, outcomes)] :
            outcomes \in [1..total -> QuoteOutcomes]}

\* every task merges its reddit analysis with the quotes it gets, and
\* run_general_analysis returns the list
MergeStockData ==
    /\ run_ret = NoneVal
    /\ \E quotes \in TaskQuotes :
          /\ analysis' = [i \in 1..Len(futures) |-> MergedAnalysis(futures[i], quotes[i])]
          /\ run_ret' = Some(quotes)
    /\ UNCHANGED <<ret, futures, finish_order, results, cacheVars, concVars, clsVars,
                   extVars>>

\* lines 110-113 of perform_general_analysis: a selector is called on the
\* returned list
SelectFromMerged ==
    /\ run_ret # NoneVal
    /\ ret = NoCall
    /\ \E fn \in {"get_top_stock", "get_worst_stock", "get_rising_stock"} :
          ret' = [fn |-> fn, limit |-> DefaultRisingLimit,
                  value |-> SelectorResult(fn, analysis, DefaultRisingLimit)]
    /\ UNCHANGED <<analysis, cacheVars, poolVars, concVars, clsVars, extVars>>

MarketNext == MergeStockData \/ SelectFromMerged

MarketSpec == MarketInit /\ [][MarketNext]_vars

\* the fields of an entry that come from the mentions, not from the quote
Core(stock) ==
    [symbol |-> stock.symbol, count |-> stock.count, sentiment |-> stock.sentiment,
     post |-> stock.post]

\* what a selector returned, without the market data: the post names the
\* source of an entry and the symbol its place in the list
CoreOf(fn, value) ==
    IF value.tag # "value" THEN value
    ELSE IF fn = "get_rising_stock"
         THEN Some([k \in 1..Len(value.value) |-> Core(value.value[k])])
         ELSE Some(Core(value.value))

\* C26: the selection does not depend on the market data: whatever quotes
\* the entries are decorated with, each selector selects the entries at the
\* same places, and an entry whose quote failed stays in its list at its
\* place.
C26_MarketDataNotUsedByRanking ==
    ret.fn # "none" =>
        /\ \A quotes \in TaskQuotes :
              CoreOf(ret.fn,
                     SelectorResult(ret.fn,
                         [i \in 1..Len(futures) |-> MergedAnalysis(futures[i], quotes[i])],
                         ret.limit))
                 = CoreOf(ret.fn, ret.value)
        /\ \A i \in 1..Len(futures) :
              LET reddit_analysis == get_reddit_analysis(futures[i].outcome.value, AnalysisLimit)
                  cat == CategoryOf(ret.fn)
              IN /\ Len(analysis[i][cat]) = Len(reddit_analysis[cat])
                 /\ \A j \in 1..Len(reddit_analysis[cat]) :
                       Core(analysis[i][cat][j]) = reddit_analysis[cat][j]

\* the quote of the stock with the highest sentiment failed, the other
\* stock has a quote, and get_top_stock returned the stock without a quote
C26_Witness ==
    /\ ret.fn = "get_top_stock"
    /\ ret.value.tag = "value"
    /\ ret.value.value.price = NoneVal
    /\ \E i \in 1..Len(analysis) :
          /\ Len(analysis[i].top_stocks) = 2
          /\ analysis[i].top_stocks[1] = ret.value.value
          /\ analysis[i].top_stocks[2].price # NoneVal
          /\ analysis[i].top_stocks[2].sentiment < ret.value.value.sentiment


-----------------------------------------------------------------------------
(* The playground: POST /api/playground beside the cache of /api/home.      *)

\* the stocks a playground request may ask for
PlaygroundStocks == {"$SPY", "$GPRO"}

\* get_stock_analysis on one subreddit's mentions: the entry of the stock,
\* or None when the stock is not mentioned
get_stock_analysis(mentions, stock) ==
    LET found == SelectSeq(mentions, LAMBDA m : m.symbol = stock)
    IN IF found = <<>> THEN NoneVal ELSE Some(<<Head(found)>>)

RECURSIVE SpecificOf(_, _, _)
SpecificOf(subs, mentions, stock) ==
    IF subs = <<>> THEN <<>>
    ELSE <<[subreddit |-> Head(subs),
            specific_stock |-> get_stock_analysis(Head(mentions), stock)]>>
         \o SpecificOf(Tail(subs), Tail(mentions), stock)

\* run_specific_stock_analysis(subreddits, stocks, ...)
run_specific_stock_analysis(collected, stock) ==
    IF collected.tag = "raise" THEN collected
    ELSE Some(SpecificOf(subreddits, collected.value, stock))

\* perform_playground_general_analysis at tick t
perform_playground_general_analysis(collected, t) ==
    LET general_analysis == run_general_analysis(collected)
    IN IF general_analysis.tag = "raise" THEN general_analysis
       ELSE Some([analysis_results |-> general_analysis.value,
                  timestamp |-> strftime(t)])

\* perform_playground_specific_analysis at tick t
perform_playground_specific_analysis(collected, stock, t) ==
    LET specific_analysis == run_specific_stock_analysis(collected, stock)
    IN IF specific_analysis.tag = "raise" THEN specific_analysis
       ELSE Some([analysis_results |-> specific_analysis.value,
                  timestamp |-> strftime(t)])

PlaygroundRequests ==
    {"getplaygroundgeneralanalysis", "getplaygroundspecificanalysis",
     "unknown", "malformed"}

\* the response of playground_analysis: status code and body
playground_analysis(type, collected, stock, t) ==
    IF type = "malformed"
    THEN [tag |-> "response", status |-> 400, body |-> NoneVal]
    ELSE IF type = "unknown"
    THEN [tag |-> "response", status |-> 400, body |-> NoneVal]
    ELSE LET result ==
                 IF type = "getplaygroundgeneralanalysis"
                 THEN perform_playground_general_analysis(collected, t)
                 ELSE perform_playground_specific_analysis(collected, stock, t)
         IN IF result.tag = "raise"
            THEN [tag |-> "response", status |-> 500, body |-> NoneVal]
            ELSE [tag |-> "response", status |-> 200, body |-> result]

\* a handler that stamped the cached result with the time of its own run
PlaygroundEffect_cached(response) ==
    IF response.status = 200 /\ cached_analysis.tag = "dict"
    THEN LET saved == save_cached_analysis(
                          Store,
                          [cached_analysis EXCEPT
                              !.last_updated = response.body.value.timestamp],
                          "ok")
         IN /\ cached_analysis' = saved.mem
            /\ cache_file' = saved.file
    ELSE UNCHANGED <<cached_analysis, cache_file>>

\* what the playground handler does to the cache store: it has no global
\* declaration and calls neither save_cached_analysis nor open
PlaygroundEffect(response) == UNCHANGED <<cached_analysis, cache_file>>

\* POST /api/playground
PlaygroundAnalysis ==
    /\ Serving
    /\ UNCHANGED <<now, phase, startVars, selVars, poolVars, concVars, clsVars, extVars>>
    /\ \E type \in PlaygroundRequests, collected \in CollectionOutcomes,
          stock \in PlaygroundStocks :
          LET response == playground_analysis(type, collected, stock, now)
          IN /\ call' = [op |-> "playground", pre |-> CacheState, runs |-> 0,
                         outcome |-> IF response.status = 500 THEN "caught"
                                     ELSE "returned",
                         result |-> response]
             /\ PlaygroundEffect(response)

PlaygroundInit ==
    /\ analysis = <<>>
    /\ ret = NoCall
    /\ IdleCache
    /\ IdlePool
    /\ IdleThreads
    /\ IdleClassifier
    /\ IdleExtractor

PlaygroundNext ==
    \/ LoadCachedAnalysis
    \/ StartupCacheUpdate
    \/ GetGeneralAnalysis
    \/ PlaygroundAnalysis
    \/ AdvanceClock

PlaygroundSpec == PlaygroundInit /\ [][PlaygroundNext]_vars

\* a step in which the playground handler answered a request
PlaygroundStep == call'.op = "playground" /\ call' # call

\* C27: in every cache state a request to /api/playground, answered with a
\* result or with an error, leaves the cached result, its last_updated and
\* the snapshot file as they were
C27_PlaygroundLeavesCacheAlone ==
    [][PlaygroundStep =>
          /\ cached_analysis' = cached_analysis
          /\ cache_file' = cache_file]_vars

\* a playground analysis answered while the cache holds another, valid result
C27_Witness ==
    /\ call.op = "playground"
    /\ call.pre = "VALID"
    /\ call.result.status = 200
    /\ cache_file = cached_analysis
    /\ call.result.body.value.timestamp # cached_analysis.last_updated

-----------------------------------------------------------------------------
(* The stored Rising_Stock beside the stored Top_Stock *)

\* the response perform_general_analysis builds from a selection
ResponseOf(sel) ==
    [Top_Stock |-> ResponseEntry(sel.top_stock),
     Worst_Stock |-> ResponseEntry(sel.worst_stock),
     Rising_Stock |-> ResponseEntry(sel.rising_stock)]

\* the selections of a run whose response is the cached one
SelectionsCached ==
    {sel \in {Selections[collected] : collected \in CollectionOutcomes} :
        /\ sel.tag = "value"
        /\ "raise" \notin {sel.top_stock.tag, sel.worst_stock.tag, sel.rising_stocks.tag}
        /\ cached_analysis.response = ResponseOf(sel)}

\* C28: whenever get_rising_stock returned at least two entries, the stored
\* Rising_Stock (the second of them) has a symbol different from the symbol
\* of the stored Top_Stock
C28_RisingStockIsNotTopStock ==
    cached_analysis.tag = "dict" =>
        \A sel \in SelectionsCached :
            (/\ sel.rising_stocks.tag = "value"
             /\ Len(sel.rising_stocks.value) >= 2
             /\ sel.top_stock.tag = "value")
            => cached_analysis.response.Rising_Stock.value.symbol
                  # cached_analysis.response.Top_Stock.value.symbol

-----------------------------------------------------------------------------
(* Symbols of the list get_rising_stock returns *)

\* no two positions of the list hold the same symbol
DistinctSymbols(stocks) ==
    \A i, j \in 1..Len(stocks) : stocks[i].symbol = stocks[j].symbol => i = j

\* C30: the list get_rising_stock returns holds no two entries with the same
\* symbol, also when one symbol heads the rising stocks of several sources
C30_RisingListHasDistinctSymbols ==
    (ret.fn = "get_rising_stock" /\ ret.value.tag = "value")
        => DistinctSymbols(ret.value.value)

-----------------------------------------------------------------------------
(* The timestamp of the stored result over the stores of several threads *)

\* C29: in every interleaving of request-triggered and scheduler-triggered
\* recomputations, a store replaces the cached result with one whose
\* last_updated is greater than or equal to that of the result it replaces
C29_LastUpdatedNeverDecreases ==
    [][(cached_analysis.tag = "dict" /\ cached_analysis'.tag = "dict")
          => cached_analysis'.last_updated >= cached_analysis.last_updated]_vars

====
